---- MODULE Spec2Model ----
(***************************************************************************)
(* Model of the financial-report extraction agent: the LangGraph pipeline  *)
(* of src/src/workflow (graph.py, nodes.py, conditions.py) threaded over   *)
(* an AgentState, with the services the nodes call (deterministic          *)
(* validator, LLM adjudicator, derived metrics) and the table merge of the *)
(* blockification service.                                                 *)
(*                                                                         *)
(* Conventions.  An optional value (a missing dict key, a None) is the     *)
(* empty sequence <<>>, a present value v is <<v>>.  A date is the triple  *)
(* <<year, month, day>>, so a candidate without a period has               *)
(* period_end_date = <<>>.  Decimal amounts are integers (the unit is one  *)
(* million of the currency); bounds given as decimal fractions in the      *)
(* source are kept as integers over a common denominator and compared by   *)
(* cross-multiplication; quotients are kept as <<numerator, denominator>>. *)
(***************************************************************************)
EXTENDS Integers, Sequences, FiniteSets, TLC

VARIABLES
    pc,          \* the node the graph runs next, or "END"
    state,       \* the AgentState record threaded through the nodes
    executed,    \* nodes that have run, in order
    llm_log,     \* per adjudicated group: the client, the LLM's answer, whether it was queried
    camelot_tables,     \* input of _merge_tables
    pdfplumber_tables,  \* input of _merge_tables
    merged_tables,      \* result of _merge_tables
    merge_pc,           \* "input" before the merge, "merged" after it
    parser_priority,    \* config.pdf.parser_priority of the blockification service
    parsers,            \* self.parsers: the adapters that initialised, in insertion order
    adapter_runs,       \* what parse_pdf of each adapter does on the document
    invoked,            \* adapters whose parse_pdf was called, in order
    parse_return,       \* what parse / parse_with_fallback returned or raised
    parse_pc,           \* "ready" before the call, "returned" after it
    call,               \* a call of a service function: its name and arguments
    ret                 \* <<>> before the call returns, <<value>> after

vars == <<pc, state, executed, llm_log,
          camelot_tables, pdfplumber_tables, merged_tables, merge_pc,
          parser_priority, parsers, adapter_runs, invoked, parse_return, parse_pc,
          call, ret>>

pipeline_vars == <<pc, state, executed, llm_log>>
merge_vars == <<camelot_tables, pdfplumber_tables, merged_tables, merge_pc>>
parse_vars == <<parser_priority, parsers, adapter_runs, invoked, parse_return, parse_pc>>
call_vars == <<call, ret>>
\* Everything outside the workflow's AgentState.
service_vars == <<merge_vars, parse_vars, call_vars>>

----------------------------------------------------------------------------
(* Bounds of the model.                                                    *)

\* Longest candidate list the candidate generator returns in a run.
MaxCands == 3
\* Most nodes that raise in one run.
MaxFailures == 12
\* Most tables the two table adapters return together.
MaxTables == 3

----------------------------------------------------------------------------
(* Generic helpers.                                                        *)

Absent == <<>>
Some(v) == <<v>>
IsPresent(slot) == slot # <<>>
\* dict.get(key, default)
Get(slot, default) == IF slot = <<>> THEN default ELSE slot[1]

Abs(n) == IF n < 0 THEN -n ELSE n

Range(s) == {s[i] : i \in 1..Len(s)}

\* A cell is the sequence of its characters; str.strip() drops the blanks
\* at both ends.
RECURSIVE LStrip(_)
LStrip(cell) ==
    IF cell # <<>> /\ Head(cell) = " " THEN LStrip(Tail(cell)) ELSE cell

RECURSIVE RStrip(_)
RStrip(cell) ==
    IF cell # <<>> /\ cell[Len(cell)] = " "
    THEN RStrip(SubSeq(cell, 1, Len(cell) - 1)) ELSE cell

Strip(cell) == RStrip(LStrip(cell))

\* The sum of a sequence of numbers.
SeqSum(s) ==
    LET sum[k \in 0..Len(s)] == IF k = 0 THEN 0 ELSE sum[k - 1] + s[k]
    IN sum[Len(s)]

\* The concatenation of a sequence of sequences.
Flatten(ss) ==
    LET flat[k \in 0..Len(ss)] == IF k = 0 THEN <<>> ELSE flat[k - 1] \o ss[k]
    IN flat[Len(ss)]

\* num/den < b/scale, for den # 0 and scale > 0 (exact, by cross-multiplication).
RatioLess(num, den, b, scale) ==
    IF den > 0 THEN num * scale < b * den ELSE num * scale > b * den

\* num/den > b/scale, for den # 0 and scale > 0.
RatioGreater(num, den, b, scale) ==
    IF den > 0 THEN num * scale > b * den ELSE num * scale < b * den

----------------------------------------------------------------------------
(* Candidates.  The candidate generator returns CandidateValue records     *)
(* with fresh uuid4 ids, sorted by confidence_score descending             *)
(* (candidate_generator.py, _score_candidates).  A run's candidate list is *)
(* drawn from the pool below; confidence is in hundredths.                 *)

NoPeriod == <<>>
FY2022 == <<2022, 12, 31>>
FY2023 == <<2023, 12, 31>>

Cand(id, name, value, currency, scale, period, conf) ==
    [candidate_id |-> id, metric_name |-> name, value |-> value,
     currency |-> currency, scale |-> scale, period_end_date |-> period,
     confidence_score |-> conf]

CandidatePool ==
    { Cand("c1", "revenue", 1100, "GBP", "millions", FY2023, 86),
      Cand("c2", "revenue", 1000, "GBP", "millions", FY2022, 85),
      Cand("c3", "revenue", 5000, "GBP", "millions", FY2023, 50),
      Cand("c4", "net_income", 2000, "XYZ", "millions", FY2023, 84),
      Cand("c5", "total_assets", 1060, "GBP", "millions", FY2023, 83),
      Cand("c6", "current_assets", 300, "GBP", "millions", FY2023, 82),
      Cand("c7", "non_current_assets", 700, "GBP", "millions", FY2023, 81),
      Cand("c8", "revenue", 900, "GBP", "millions", NoPeriod, 40) }

SortedByConfidence(cs) ==
    \A i \in 1..Len(cs) - 1 : cs[i].confidence_score >= cs[i + 1].confidence_score

\* The candidate lists a run may generate: distinct candidates of the pool,
\* in the descending confidence order the generator returns.
CandidateLists ==
    { cs \in UNION {[1..n -> CandidatePool] : n \in 0..MaxCands} :
        /\ \A i, j \in 1..Len(cs) : i # j => cs[i] # cs[j]
        /\ SortedByConfidence(cs) }

GroupKey(c) == <<c.metric_name, c.period_end_date>>

\* Keys of the dict built by _group_candidates, in insertion order: the key
\* of every candidate that is the first of the list with its key.
GroupKeys(cs) ==
    LET first == SelectSeq([i \in 1..Len(cs) |-> i], LAMBDA i :
                    \A j \in 1..i - 1 : GroupKey(cs[j]) # GroupKey(cs[i]))
    IN [k \in 1..Len(first) |-> GroupKey(cs[first[k]])]

\* grouped[key]: the candidates of the group, in input order.
GroupOf(cs, key) == SelectSeq(cs, LAMBDA c : GroupKey(c) = key)

\* _group_candidates: the (key, candidates) items in dict order.
_group_candidates(cs) ==
    LET keys == GroupKeys(cs)
    IN [i \in 1..Len(keys) |-> [key |-> keys[i], members |-> GroupOf(cs, keys[i])]]

----------------------------------------------------------------------------
(* Deterministic validator (services/validators.py).                       *)

\* METRIC_BOUNDS: (min, max) of value / revenue, in tenths.
METRIC_BOUNDS ==
    [ gross_profit |-> <<0, 10>>,
      operating_profit |-> <<-5, 10>>,
      net_income |-> <<-10, 10>>,
      ebitda |-> <<-5, 15>>,
      current_assets |-> <<0, 100>>,
      total_assets |-> <<0, 500>>,
      current_liabilities |-> <<0, 100>>,
      total_liabilities |-> <<0, 500>>,
      total_equity |-> <<-50, 500>> ]

\* YOY_BOUNDS: (min, max) of the year-over-year change, in tenths.
YOY_BOUNDS ==
    [ revenue |-> <<-5, 20>>,
      gross_profit |-> <<-7, 30>>,
      operating_profit |-> <<-20, 50>>,
      net_income |-> <<-30, 100>>,
      total_assets |-> <<-3, 10>>,
      total_equity |-> <<-5, 15>> ]

\* ARITHMETIC_RULES: the components of each total.
ARITHMETIC_RULES ==
    [ total_assets |-> <<"current_assets", "non_current_assets">>,
      total_liabilities |-> <<"current_liabilities", "non_current_liabilities">>,
      gross_profit |-> <<"revenue", "cost_of_sales">>,
      operating_profit |-> <<"gross_profit", "operating_expenses">> ]

\* DeterministicValidator.__init__: tolerance = Decimal("0.05"), in hundredths.
tolerance == 5

IsLeapYear(y) == (y % 4 = 0 /\ y % 100 # 0) \/ y % 400 = 0

DaysInMonth(y, m) ==
    IF m = 2 THEN (IF IsLeapYear(y) THEN 29 ELSE 28)
    ELSE IF m \in {4, 6, 9, 11} THEN 30 ELSE 31

\* datetime.date(y, m, d) succeeds; otherwise it raises ValueError.
ValidDate(y, m, d) == m \in 1..12 /\ d >= 1 /\ d <= DaysInMonth(y, m)

\* _find_metric: the first candidate with that name and, unless the period
\* asked for is None, that period; <<>> when there is none.
_find_metric(candidates, metric_name, period_end_date) ==
    LET hits == SelectSeq(candidates, LAMBDA c :
                    /\ c.metric_name = metric_name
                    /\ (period_end_date = NoPeriod \/ c.period_end_date = period_end_date))
    IN IF hits = <<>> THEN <<>> ELSE <<hits[1]>>

_check_unit_consistency(candidate) ==
    IF candidate.currency \notin {"GBP", "USD", "EUR"} THEN [valid |-> FALSE]
    ELSE IF candidate.scale \notin {"actual", "thousands", "millions", "billions"}
         THEN [valid |-> FALSE]
    ELSE [valid |-> TRUE]

_check_range_bounds(candidate, all_candidates) ==
    LET revenue == _find_metric(all_candidates, "revenue", candidate.period_end_date)
    IN IF revenue = <<>> \/ candidate.metric_name \notin DOMAIN METRIC_BOUNDS
       THEN [valid |-> TRUE]
       ELSE IF revenue[1].value = 0 THEN [valid |-> TRUE]
       ELSE LET b == METRIC_BOUNDS[candidate.metric_name]
            IN IF \/ RatioLess(candidate.value, revenue[1].value, b[1], 10)
                  \/ RatioGreater(candidate.value, revenue[1].value, b[2], 10)
               THEN [valid |-> FALSE]
               ELSE [valid |-> TRUE]

\* date(year - 1, month, day) of _check_yoy_delta raises ValueError.
YoyRaises(candidate) ==
    /\ candidate.period_end_date # NoPeriod
    /\ ~ValidDate(candidate.period_end_date[1] - 1,
                  candidate.period_end_date[2], candidate.period_end_date[3])

\* None (<<>>) for a candidate without a period, else the check's result.
_check_yoy_delta(candidate, all_candidates) ==
    IF candidate.period_end_date = NoPeriod THEN <<>>
    ELSE LET p == candidate.period_end_date
             prev_year_date == <<p[1] - 1, p[2], p[3]>>
             prev_value == _find_metric(all_candidates, candidate.metric_name,
                                        prev_year_date)
         IN IF prev_value = <<>> THEN <<[valid |-> TRUE]>>
            ELSE IF prev_value[1].value = 0 THEN <<[valid |-> TRUE]>>
            ELSE IF candidate.metric_name \in DOMAIN YOY_BOUNDS
                 THEN LET b == YOY_BOUNDS[candidate.metric_name]
                          num == candidate.value - prev_value[1].value
                          den == Abs(prev_value[1].value)
                      IN IF RatioLess(num, den, b[1], 10) \/ RatioGreater(num, den, b[2], 10)
                         THEN <<[valid |-> FALSE]>>
                         ELSE <<[valid |-> TRUE]>>
            ELSE <<[valid |-> TRUE]>>

_check_arithmetic(candidate, all_candidates) ==
    IF candidate.metric_name \notin DOMAIN ARITHMETIC_RULES THEN <<[valid |-> TRUE]>>
    ELSE LET components == ARITHMETIC_RULES[candidate.metric_name]
             found == [i \in 1..Len(components) |->
                          _find_metric(all_candidates, components[i],
                                       candidate.period_end_date)]
         IN IF \E i \in 1..Len(components) : found[i] = <<>>
            THEN <<[valid |-> TRUE]>>
            ELSE LET component_values == [i \in 1..Len(components) |-> found[i][1].value]
                     expected ==
                         IF candidate.metric_name \in {"total_assets", "total_liabilities"}
                         THEN SeqSum(component_values)
                         ELSE component_values[1] - component_values[2]
                     difference == Abs(candidate.value - expected)
                 IN IF expected = 0 THEN <<[valid |-> TRUE]>>
                    \* difference > abs(expected * tolerance)
                    ELSE IF difference * 100 > Abs(expected * tolerance)
                         THEN <<[valid |-> FALSE]>>
                         ELSE <<[valid |-> TRUE]>>

\* The validation_issues list of _validate_candidate, one entry per rule
\* that reported a violation, in rule order.
ValidationIssues(candidate, all_candidates) ==
    LET unit_check == _check_unit_consistency(candidate)
        range_check == _check_range_bounds(candidate, all_candidates)
        yoy_check == _check_yoy_delta(candidate, all_candidates)
        arithmetic_check == _check_arithmetic(candidate, all_candidates)
    IN (IF ~unit_check.valid THEN <<"unit_consistency">> ELSE <<>>)
       \o (IF ~range_check.valid THEN <<"range_check">> ELSE <<>>)
       \o (IF yoy_check # <<>> /\ ~yoy_check[1].valid THEN <<"yoy_delta">> ELSE <<>>)
       \o (IF arithmetic_check # <<>> /\ ~arithmetic_check[1].valid
           THEN <<"arithmetic">> ELSE <<>>)

\* A validator that only rejects a candidate at three violations.
StatusOfIssues_lenient(validation_issues) ==
    IF Len(validation_issues) = 0 THEN "valid"
    ELSE IF Len(validation_issues) >= 3 THEN "invalid"
    ELSE "needs_review"

\* The status _validate_candidate derives from the number of issues.
StatusOfIssues(validation_issues) ==
    IF Len(validation_issues) = 0 THEN "valid"
    ELSE IF Len(validation_issues) >= 2 THEN "invalid"
    ELSE "needs_review"

_validate_candidate(candidate, all_candidates) ==
    LET validation_issues == ValidationIssues(candidate, all_candidates)
    IN [candidate_id |-> candidate.candidate_id,
        status |-> StatusOfIssues(validation_issues),
        issues |-> validation_issues]

\* validate_candidates raises (the ValueError of _check_yoy_delta).
ValidateRaises(candidates) == \E i \in 1..Len(candidates) : YoyRaises(candidates[i])

\* validate_candidates: one result per candidate, group by group.
validate_candidates(candidates) ==
    LET grouped == _group_candidates(candidates)
        result == [candidate \in Range(candidates) |->
                      _validate_candidate(candidate, candidates)]
    IN Flatten([g \in 1..Len(grouped) |->
                  [i \in 1..Len(grouped[g].members) |->
                      result[grouped[g].members[i]]]])

\* An aggregator that overlooks the candidates that need review.
get_candidates_needing_adjudication_invalid_only(validation_results) ==
    LET needing == SelectSeq(validation_results, LAMBDA r : r.status = "invalid")
    IN [i \in 1..Len(needing) |-> needing[i].candidate_id]

\* ValidationAggregator.get_candidates_needing_adjudication
get_candidates_needing_adjudication(validation_results) ==
    LET needing == SelectSeq(validation_results,
                             LAMBDA r : r.status \in {"needs_review", "invalid"})
    IN [i \in 1..Len(needing) |-> needing[i].candidate_id]

----------------------------------------------------------------------------
(* LLM adjudicator (services/llm_adjudicator.py).                          *)

\* What the LLM provider does with one prompt.  raises: the call raises.
\* is_json: the text, code fences stripped, is a JSON object.  fields: the
\* keys of that object.  An alternative_value of null or a missing key is <<>>.
Response(raises, is_json, fields, id, alt) ==
    [raises |-> raises, is_json |-> is_json, fields |-> fields,
     selected_candidate_id |-> id, confidence |-> 90, reasoning |-> "reasoning",
     alternative_value |-> alt]

required_fields == {"selected_candidate_id", "confidence", "reasoning"}

NoResponse == Response(FALSE, FALSE, {}, "none", <<>>)

\* The answers the provider may give for a group of candidates.
LLMResponses(members) ==
    { Response(TRUE, FALSE, {}, "none", <<>>),
      Response(FALSE, FALSE, {}, "none", <<>>),
      Response(FALSE, TRUE, {"selected_candidate_id", "confidence"}, "none", <<>>) }
    \cup { Response(FALSE, TRUE, required_fields \cup {"alternative_value"}, id, alt) :
             id \in {members[i].candidate_id : i \in 1..Len(members)} \cup {"unknown"},
             alt \in {<<>>, <<1234>>} }

\* _parse_llm_response raises (json.loads fails or a required field is missing).
ParseRaises(response) ==
    ~response.is_json \/ ~(required_fields \subseteq response.fields)

\* max(candidates, key=lambda c: c.confidence_score): the first of the maxima.
MaxByConfidence(members) ==
    LET best == CHOOSE i \in 1..Len(members) :
                  /\ \A j \in 1..Len(members) :
                        members[j].confidence_score <= members[i].confidence_score
                  /\ \A j \in 1..i - 1 :
                        members[j].confidence_score < members[i].confidence_score
    IN members[best]

\* A conversion that keeps the candidate's value whatever the LLM proposes.
_candidate_to_metric_own_value(candidate, llm_reasoning, llm_confidence, alternative_value) ==
    [metric_id |-> candidate.candidate_id,
     metric_name |-> candidate.metric_name,
     value |-> candidate.value,
     currency |-> candidate.currency,
     scale |-> candidate.scale,
     period_end_date |-> candidate.period_end_date,
     llm_reasoning |-> llm_reasoning,
     llm_confidence |-> llm_confidence]

_candidate_to_metric(candidate, llm_reasoning, llm_confidence, alternative_value) ==
    [metric_id |-> candidate.candidate_id,
     metric_name |-> candidate.metric_name,
     value |-> IF alternative_value # <<>> THEN alternative_value[1] ELSE candidate.value,
     currency |-> candidate.currency,
     scale |-> candidate.scale,
     period_end_date |-> candidate.period_end_date,
     llm_reasoning |-> llm_reasoning,
     llm_confidence |-> llm_confidence]

_fallback_adjudication(members) ==
    _candidate_to_metric(MaxByConfidence(members), <<>>, <<>>, <<>>)

\* A lookup that settles for the first candidate when the id is unknown.
_find_candidate_by_id_or_first(members, candidate_id) ==
    LET hits == SelectSeq(members, LAMBDA c : c.candidate_id = candidate_id)
    IN IF hits = <<>> THEN <<members[1]>> ELSE <<hits[1]>>

_find_candidate_by_id(members, candidate_id) ==
    LET hits == SelectSeq(members, LAMBDA c : c.candidate_id = candidate_id)
    IN IF hits = <<>> THEN <<>> ELSE <<hits[1]>>

\* _adjudicate_with_llm: raised tells that it raised, called that _query_llm
\* was invoked, metric is the result when it did not raise.
_adjudicate_with_llm(members, client, response) ==
    IF ~client
    THEN [raised |-> FALSE, called |-> FALSE, metric |-> _fallback_adjudication(members)]
    ELSE IF response.raises \/ ParseRaises(response)
    THEN [raised |-> TRUE, called |-> TRUE, metric |-> _fallback_adjudication(members)]
    ELSE LET selected_candidate ==
                 _find_candidate_by_id(members, response.selected_candidate_id)
         IN IF selected_candidate = <<>>
            THEN [raised |-> FALSE, called |-> TRUE,
                  metric |-> _fallback_adjudication(members)]
            ELSE [raised |-> FALSE, called |-> TRUE,
                  metric |-> _candidate_to_metric(selected_candidate[1],
                                 <<response.reasoning>>, <<response.confidence>>,
                                 response.alternative_value)]

\* The validation results of the group's candidates.
RelevantValidations(members, validation_results) ==
    SelectSeq(validation_results, LAMBDA v :
        v.candidate_id \in {members[i].candidate_id : i \in 1..Len(members)})

\* An adjudicator that sends every group to the LLM.
NeedsAdjudication_every_group(members, validation_results) == TRUE

NeedsAdjudication(members, validation_results) ==
    LET relevant_validations == RelevantValidations(members, validation_results)
    IN \E i \in 1..Len(relevant_validations) :
          relevant_validations[i].status \in {"needs_review", "invalid"}

\* One iteration of the loop of adjudicate_candidates.
AdjudicateGroup(members, validation_results, client, response) ==
    IF ~NeedsAdjudication(members, validation_results)
    THEN [called |-> FALSE,
          metric |-> _candidate_to_metric(MaxByConfidence(members), <<>>, <<>>, <<>>)]
    ELSE LET r == _adjudicate_with_llm(members, client, response)
         IN IF r.raised
            THEN [called |-> r.called,
                  metric |-> _candidate_to_metric(MaxByConfidence(members),
                                                  <<>>, <<>>, <<>>)]
            ELSE [called |-> r.called, metric |-> r.metric]

\* An adjudicator without the fallback of the except block: a group whose
\* LLM call raised gives no metric.
adjudicate_candidates_dropping_failed(candidates, validation_results, client, responses) ==
    LET grouped == _group_candidates(candidates)
        out == [g \in 1..Len(grouped) |->
                   AdjudicateGroup(grouped[g].members, validation_results,
                                   client, responses[g])]
        kept == SelectSeq([g \in 1..Len(grouped) |-> g], LAMBDA g :
                    ~(out[g].called /\ (responses[g].raises \/ ParseRaises(responses[g]))))
    IN [metrics |-> [k \in 1..Len(kept) |-> out[kept[k]].metric],
        log |-> [g \in 1..Len(grouped) |->
                    [key |-> grouped[g].key, client |-> client,
                     response |-> responses[g], called |-> out[g].called]]]

\* adjudicate_candidates, given the provider's answer for each group:
\* the metrics, and for each group what was asked of the LLM.
adjudicate_candidates(candidates, validation_results, client, responses) ==
    LET grouped == _group_candidates(candidates)
        out == [g \in 1..Len(grouped) |->
                   AdjudicateGroup(grouped[g].members, validation_results,
                                   client, responses[g])]
    IN [metrics |-> [g \in 1..Len(grouped) |-> out[g].metric],
        log |-> [g \in 1..Len(grouped) |->
                    [key |-> grouped[g].key, client |-> client,
                     response |-> responses[g], called |-> out[g].called]]]

\* The provider's possible answers to one call of adjudicate_candidates: an
\* answer for each group that is adjudicated, NoResponse for the others.
RECURSIVE ResponseAssignments(_, _, _)
ResponseAssignments(grouped, validation_results, client) ==
    IF grouped = <<>> THEN {<<>>}
    ELSE LET g == grouped[Len(grouped)]
             rest == ResponseAssignments(SubSeq(grouped, 1, Len(grouped) - 1),
                                         validation_results, client)
             here == IF client /\ NeedsAdjudication(g.members, validation_results)
                     THEN LLMResponses(g.members) ELSE {NoResponse}
         IN {Append(r, h) : r \in rest, h \in here}

----------------------------------------------------------------------------
(* Derived metrics (analysis/derived_metrics.py).                          *)

\* metric_name.lower().replace(' ', '_')
LowerUnderscore(name) ==
    CASE name = "Revenue" -> "revenue"
      [] name = "Net Income" -> "net_income"
      [] name = "Total Assets" -> "total_assets"
      [] OTHER -> name

\* _create_metrics_dict raises: period_end_date.year of a metric without period.
MetricsDictRaises(metrics) ==
    \E i \in 1..Len(metrics) : metrics[i].period_end_date = NoPeriod

\* Keys of metrics_dict, and of metrics_dict[name] (the year of the period).
DictNames(metrics) == {LowerUnderscore(metrics[i].metric_name) : i \in 1..Len(metrics)}

DictPeriods(metrics, name) ==
    {metrics[i].period_end_date[1] :
        i \in {j \in 1..Len(metrics) : LowerUnderscore(metrics[j].metric_name) = name}}

HasMetric(metrics, name, period) ==
    name \in DictNames(metrics) /\ period \in DictPeriods(metrics, name)

\* metrics_dict[name][period]: a later metric overwrites an earlier one.
MetricAt(metrics, name, period) ==
    LET last == CHOOSE i \in 1..Len(metrics) :
                  /\ LowerUnderscore(metrics[i].metric_name) = name
                  /\ metrics[i].period_end_date[1] = period
                  /\ \A j \in i + 1..Len(metrics) :
                        ~(/\ LowerUnderscore(metrics[j].metric_name) = name
                          /\ metrics[j].period_end_date[1] = period)
    IN metrics[last]

RECURSIVE SortedSeqOf(_)
SortedSeqOf(S) ==
    IF S = {} THEN <<>>
    ELSE LET m == CHOOSE x \in S : \A y \in S : x <= y
         IN <<m>> \o SortedSeqOf(S \ {m})

\* The orders in which a Python set with these elements may be iterated.
RECURSIVE IterationOrders(_)
IterationOrders(S) ==
    IF S = {} THEN {<<>>}
    ELSE UNION {{<<x>> \o r : r \in IterationOrders(S \ {x})} : x \in S}

\* (metric_key, metric_name, f"{metric_name} YoY")
growth_targets ==
    << <<"revenue", "Revenue Growth", "Revenue Growth YoY">>,
       <<"ebitda", "EBITDA Growth", "EBITDA Growth YoY">>,
       <<"net_income", "Net Income Growth", "Net Income Growth YoY">>,
       <<"operating_profit", "Operating Profit Growth",
         "Operating Profit Growth YoY">> >>

DerivedMetric(id, name, value, currency, period_end_date, notes) ==
    [metric_id |-> id, metric_name |-> name, value |-> value,
     currency |-> currency, scale |-> "actual",
     period_end_date |-> period_end_date,
     extraction_method |-> "calculated", notes |-> notes]

\* _calculate_growth_rate: None (<<>>) for a zero prior value.
_calculate_growth_rate(current_value, prior_value) ==
    IF prior_value = 0 THEN <<>>
    ELSE << <<current_value - prior_value, Abs(prior_value)>> >>

\* _calculate_ratio: None (<<>>) for a zero denominator.
_calculate_ratio(numerator, denominator) ==
    IF denominator = 0 THEN <<>> ELSE << <<numerator, denominator>> >>

GrowthOf(metrics, target) ==
    IF target[1] \notin DictNames(metrics) THEN <<>>
    ELSE LET periods == SortedSeqOf(DictPeriods(metrics, target[1]))
         IN Flatten([k \in 1..Len(periods) - 1 |->
                LET current_metric == MetricAt(metrics, target[1], periods[k + 1])
                    prior_metric == MetricAt(metrics, target[1], periods[k])
                    growth_rate == _calculate_growth_rate(current_metric.value,
                                                          prior_metric.value)
                IN IF growth_rate = <<>> THEN <<>>
                   ELSE <<DerivedMetric(<<target[1], "growth", periods[k + 1]>>,
                                        target[3], growth_rate[1], "",
                                        current_metric.period_end_date,
                                        <<"Calculated from", periods[k], periods[k + 1]>>)>>])

_compute_growth_rates(metrics) ==
    Flatten([t \in 1..Len(growth_targets) |-> GrowthOf(metrics, growth_targets[t])])

\* One ratio of one period: emitted when both operands exist for the period
\* and the denominator is not zero.
RatioOf(metrics, period, id, name, num_key, den_key, currency, formula) ==
    IF HasMetric(metrics, num_key, period) /\ HasMetric(metrics, den_key, period)
    THEN LET num == MetricAt(metrics, num_key, period)
             den == MetricAt(metrics, den_key, period)
             ratio == _calculate_ratio(num.value, den.value)
         IN IF ratio = <<>> THEN <<>>
            ELSE <<DerivedMetric(<<id, period>>, name, ratio[1], currency,
                                 num.period_end_date, <<"Formula:", formula>>)>>
    ELSE <<>>

\* The first of the keys that has a metric for the period, <<>> if none.
FirstKey(metrics, keys, period) ==
    LET hits == SelectSeq(keys, LAMBDA k : HasMetric(metrics, k, period))
    IN IF hits = <<>> THEN <<>> ELSE <<hits[1]>>

\* all_periods of the ratio functions is a set; order is the order in which
\* the loop iterates it.
_compute_profitability_ratios(metrics, order) ==
    Flatten([k \in 1..Len(order) |->
        RatioOf(metrics, order[k], "ebitda_margin", "EBITDA Margin",
                "ebitda", "revenue", "", "EBITDA / Revenue")
        \o RatioOf(metrics, order[k], "net_margin", "Net Margin",
                   "net_income", "revenue", "", "Net Income / Revenue")
        \o RatioOf(metrics, order[k], "operating_margin", "Operating Margin",
                   "operating_profit", "revenue", "", "Operating Profit / Revenue")])

_compute_leverage_ratios(metrics, order) ==
    Flatten([k \in 1..Len(order) |->
        LET net_debt_key == FirstKey(metrics, <<"net_debt", "total_debt">>, order[k])
        IN (IF net_debt_key # <<>>
            THEN RatioOf(metrics, order[k], "debt_to_ebitda", "Net Debt / EBITDA",
                         net_debt_key[1], "ebitda", "ratio",
                         IF net_debt_key[1] = "net_debt" THEN "Net Debt / EBITDA"
                         ELSE "Total Debt / EBITDA")
            ELSE <<>>)
           \o RatioOf(metrics, order[k], "debt_to_equity", "Debt-to-Equity",
                      "total_debt", "total_equity", "ratio", "Total Debt / Total Equity")])

_compute_liquidity_ratios(metrics, order) ==
    Flatten([k \in 1..Len(order) |->
        LET cash_key == FirstKey(metrics, <<"cash", "cash_and_equivalents",
                                            "cash_and_cash_equivalents">>, order[k])
        IN RatioOf(metrics, order[k], "current_ratio", "Current Ratio",
                   "current_assets", "current_liabilities", "ratio",
                   "Current Assets / Current Liabilities")
           \o (IF cash_key # <<>>
               THEN RatioOf(metrics, order[k], "cash_ratio", "Cash Ratio",
                            cash_key[1], "current_liabilities", "ratio",
                            "Cash / Current Liabilities")
               ELSE <<>>)])

AllPeriods(metrics) == {metrics[i].period_end_date[1] : i \in 1..Len(metrics)}

\* compute_all_metrics, for one iteration order of the set of periods.
compute_all_metrics(metrics, order) ==
    _compute_growth_rates(metrics)
    \o _compute_profitability_ratios(metrics, order)
    \o _compute_leverage_ratios(metrics, order)
    \o _compute_liquidity_ratios(metrics, order)

----------------------------------------------------------------------------
(* Metric normalizer (services/metric_normalizer.py, utils/currency.py,    *)
(* utils/periods.py).                                                      *)

\* CurrencyConverter.EXCHANGE_RATES into the base currency, in hundredths;
\* <<>> for a pair the table does not hold.
ExchangeRateToBase(currency) ==
    CASE currency = "GBP" -> <<100>>
      [] currency = "USD" -> <<79>>
      [] currency = "EUR" -> <<85>>
      [] OTHER -> <<>>

\* ScaleConverter's multiplier of a scale relative to the base scale
\* (millions), as <<numerator, denominator>>.
ScaleMultiplier(scale) ==
    CASE scale = "thousands" -> <<1, 1000>>
      [] scale = "millions" -> <<1, 1>>
      [] scale = "billions" -> <<1000, 1>>
      [] OTHER -> <<1, 1000000>>  \* "actual", and any scale that is not known

\* scale.lower().strip() on the scale names of the model.
ScaleLowerStrip(scale) ==
    CASE scale = "Millions" -> "millions"
      [] scale = " thousands " -> "thousands"
      [] scale = "M" -> "m"
      [] OTHER -> scale

SCALE_MULTIPLIERS ==
    [actual |-> 1, thousands |-> 1000, millions |-> 1000000, billions |-> 1000000000]

\* ScaleConverter.normalize_scale: a standard name, the name an alias
\* stands for, and "actual" for every other text.
normalize_scale(scale) ==
    LET scale_lower == ScaleLowerStrip(scale)
    IN IF scale_lower \in DOMAIN SCALE_MULTIPLIERS THEN scale_lower
       ELSE CASE scale_lower \in {"k", "thousand", "000s"} -> "thousands"
              [] scale_lower \in {"m", "million", "000,000s"} -> "millions"
              [] scale_lower \in {"b", "billion"} -> "billions"
              [] OTHER -> "actual"

\* ScaleConverter.convert_to_scale: amount * from_multiplier / to_multiplier
\* as <<numerator, denominator>>, the common power of 1000 taken out.
convert_to_scale(amount, from_scale, to_scale) ==
    LET from_scale_norm == normalize_scale(from_scale)
        to_scale_norm == normalize_scale(to_scale)
        from_multiplier == SCALE_MULTIPLIERS[from_scale_norm]
        to_multiplier == SCALE_MULTIPLIERS[to_scale_norm]
    IN IF from_scale_norm = to_scale_norm THEN <<amount, 1>>
       ELSE IF from_multiplier >= to_multiplier
            THEN <<amount * (from_multiplier \div to_multiplier), 1>>
            ELSE <<amount, to_multiplier \div from_multiplier>>

\* MetricNormalizer.normalize_value: the amount in the base currency and the
\* base scale as <<numerator, denominator>>.  An unknown currency keeps the
\* amount but is still labelled with the base currency.
normalize_value(amount, currency, scale) ==
    LET rate == ExchangeRateToBase(currency)
        converted == IF rate = <<>> THEN <<amount, 1>> ELSE <<amount * rate[1], 100>>
        mult == ScaleMultiplier(scale)
    IN [normalized_value |-> <<converted[1] * mult[1], converted[2] * mult[2]>>,
        normalized_currency |-> "GBP", normalized_scale |-> "millions"]

\* Strings of the label standardizer are sequences of one-character
\* strings, so that substring tests and regular expressions act on them.
UpperToLower ==
    [c \in {"A", "B", "C", "D", "E", "F", "G", "H", "I", "J", "K", "L", "M", "N", "O", "P", "Q", "R", "S", "T", "U", "V", "W", "X", "Y", "Z"} |->
        CASE c = "A" -> "a"
          [] c = "B" -> "b"
          [] c = "C" -> "c"
          [] c = "D" -> "d"
          [] c = "E" -> "e"
          [] c = "F" -> "f"
          [] c = "G" -> "g"
          [] c = "H" -> "h"
          [] c = "I" -> "i"
          [] c = "J" -> "j"
          [] c = "K" -> "k"
          [] c = "L" -> "l"
          [] c = "M" -> "m"
          [] c = "N" -> "n"
          [] c = "O" -> "o"
          [] c = "P" -> "p"
          [] c = "Q" -> "q"
          [] c = "R" -> "r"
          [] c = "S" -> "s"
          [] c = "T" -> "t"
          [] c = "U" -> "u"
          [] c = "V" -> "v"
          [] c = "W" -> "w"
          [] c = "X" -> "x"
          [] c = "Y" -> "y"
          [] c = "Z" -> "z"]

\* str.lower()
Lower(text) ==
    [i \in 1..Len(text) |->
        IF text[i] \in DOMAIN UpperToLower THEN UpperToLower[text[i]] ELSE text[i]]

\* `sub in text`
Contains(sub, text) ==
    \E k \in 0..(Len(text) - Len(sub)) : SubSeq(text, k + 1, k + Len(sub)) = sub

\* re.sub(r'\s*\(.*?\)\s*', '', text): every "(...)" goes, up to its first
\* ")", with the white space around it.
RECURSIVE RemoveParenthesized(_)
RemoveParenthesized(text) ==
    LET opens == { i \in 1..Len(text) : text[i] = "(" }
        open == CHOOSE i \in opens : \A j \in opens : i <= j
        closes == { j \in 1..Len(text) : j > open /\ text[j] = ")" }
        close == CHOOSE j \in closes : \A k \in closes : j <= k
        before == RStrip(SubSeq(text, 1, open - 1))
        after == LStrip(SubSeq(text, close + 1, Len(text)))
    IN IF opens = {} THEN text
       ELSE IF closes = {} THEN text
       ELSE before \o RemoveParenthesized(after)

\* re.sub(r'\s+', ' ', text)
CollapseSpaces(text) ==
    SelectSeq([i \in 1..Len(text) |->
                  IF text[i] = " " /\ i > 1 /\ text[i - 1] = " " THEN "" ELSE text[i]],
              LAMBDA c : c # "")

STANDARD_LABELS ==
    << [label |-> <<"r", "e", "v", "e", "n", "u", "e">>,
        variations |-> <<
            <<"r", "e", "v", "e", "n", "u", "e">>,
            <<"t", "o", "t", "a", "l", " ", "r", "e", "v", "e", "n", "u", "e">>,
            <<"n", "e", "t", " ", "r", "e", "v", "e", "n", "u", "e">>,
            <<"s", "a", "l", "e", "s">>,
            <<"t", "u", "r", "n", "o", "v", "e", "r">>,
            <<"n", "e", "t", " ", "s", "a", "l", "e", "s">> >>],
       [label |-> <<"g", "r", "o", "s", "s", "_", "p", "r", "o", "f", "i", "t">>,
        variations |-> <<
            <<"g", "r", "o", "s", "s", " ", "p", "r", "o", "f", "i", "t">>,
            <<"g", "r", "o", "s", "s", " ", "m", "a", "r", "g", "i", "n">> >>],
       [label |-> <<"o", "p", "e", "r", "a", "t", "i", "n", "g", "_", "p", "r", "o", "f", "i", "t">>,
        variations |-> <<
            <<"o", "p", "e", "r", "a", "t", "i", "n", "g", " ", "p", "r", "o", "f", "i", "t">>,
            <<"o", "p", "e", "r", "a", "t", "i", "n", "g", " ", "i", "n", "c", "o", "m", "e">>,
            <<"e", "b", "i", "t">>,
            <<"o", "p", "e", "r", "a", "t", "i", "n", "g", " ", "e", "a", "r", "n", "i", "n", "g", "s">> >>],
       [label |-> <<"n", "e", "t", "_", "i", "n", "c", "o", "m", "e">>,
        variations |-> <<
            <<"n", "e", "t", " ", "i", "n", "c", "o", "m", "e">>,
            <<"n", "e", "t", " ", "p", "r", "o", "f", "i", "t">>,
            <<"p", "r", "o", "f", "i", "t", " ", "f", "o", "r", " ", "t", "h", "e", " ", "y", "e", "a", "r">>,
            <<"p", "r", "o", "f", "i", "t", " ", "f", "o", "r", " ", "t", "h", "e", " ", "p", "e", "r", "i", "o", "d">>,
            <<"n", "e", "t", " ", "e", "a", "r", "n", "i", "n", "g", "s">> >>],
       [label |-> <<"e", "b", "i", "t", "d", "a">>,
        variations |-> <<
            <<"e", "b", "i", "t", "d", "a">>,
            <<"a", "d", "j", "u", "s", "t", "e", "d", " ", "e", "b", "i", "t", "d", "a">> >>],
       [label |-> <<"t", "o", "t", "a", "l", "_", "a", "s", "s", "e", "t", "s">>,
        variations |-> <<
            <<"t", "o", "t", "a", "l", " ", "a", "s", "s", "e", "t", "s">>,
            <<"a", "s", "s", "e", "t", "s">> >>],
       [label |-> <<"c", "u", "r", "r", "e", "n", "t", "_", "a", "s", "s", "e", "t", "s">>,
        variations |-> <<
            <<"c", "u", "r", "r", "e", "n", "t", " ", "a", "s", "s", "e", "t", "s">> >>],
       [label |-> <<"n", "o", "n", "_", "c", "u", "r", "r", "e", "n", "t", "_", "a", "s", "s", "e", "t", "s">>,
        variations |-> <<
            <<"n", "o", "n", "-", "c", "u", "r", "r", "e", "n", "t", " ", "a", "s", "s", "e", "t", "s">>,
            <<"n", "o", "n", " ", "c", "u", "r", "r", "e", "n", "t", " ", "a", "s", "s", "e", "t", "s">>,
            <<"f", "i", "x", "e", "d", " ", "a", "s", "s", "e", "t", "s">> >>],
       [label |-> <<"t", "o", "t", "a", "l", "_", "l", "i", "a", "b", "i", "l", "i", "t", "i", "e", "s">>,
        variations |-> <<
            <<"t", "o", "t", "a", "l", " ", "l", "i", "a", "b", "i", "l", "i", "t", "i", "e", "s">>,
            <<"l", "i", "a", "b", "i", "l", "i", "t", "i", "e", "s">> >>],
       [label |-> <<"c", "u", "r", "r", "e", "n", "t", "_", "l", "i", "a", "b", "i", "l", "i", "t", "i", "e", "s">>,
        variations |-> <<
            <<"c", "u", "r", "r", "e", "n", "t", " ", "l", "i", "a", "b", "i", "l", "i", "t", "i", "e", "s">> >>],
       [label |-> <<"n", "o", "n", "_", "c", "u", "r", "r", "e", "n", "t", "_", "l", "i", "a", "b", "i", "l", "i", "t", "i", "e", "s">>,
        variations |-> <<
            <<"n", "o", "n", "-", "c", "u", "r", "r", "e", "n", "t", " ", "l", "i", "a", "b", "i", "l", "i", "t", "i", "e", "s">>,
            <<"n", "o", "n", " ", "c", "u", "r", "r", "e", "n", "t", " ", "l", "i", "a", "b", "i", "l", "i", "t", "i", "e", "s">>,
            <<"l", "o", "n", "g", "-", "t", "e", "r", "m", " ", "l", "i", "a", "b", "i", "l", "i", "t", "i", "e", "s">> >>],
       [label |-> <<"t", "o", "t", "a", "l", "_", "e", "q", "u", "i", "t", "y">>,
        variations |-> <<
            <<"t", "o", "t", "a", "l", " ", "e", "q", "u", "i", "t", "y">>,
            <<"s", "h", "a", "r", "e", "h", "o", "l", "d", "e", "r", "s", "'", " ", "e", "q", "u", "i", "t", "y">>,
            <<"s", "t", "o", "c", "k", "h", "o", "l", "d", "e", "r", "s", "'", " ", "e", "q", "u", "i", "t", "y">>,
            <<"e", "q", "u", "i", "t", "y">> >>],
       [label |-> <<"r", "e", "t", "a", "i", "n", "e", "d", "_", "e", "a", "r", "n", "i", "n", "g", "s">>,
        variations |-> <<
            <<"r", "e", "t", "a", "i", "n", "e", "d", " ", "e", "a", "r", "n", "i", "n", "g", "s">>,
            <<"a", "c", "c", "u", "m", "u", "l", "a", "t", "e", "d", " ", "p", "r", "o", "f", "i", "t", "s">> >>],
       [label |-> <<"o", "p", "e", "r", "a", "t", "i", "n", "g", "_", "c", "a", "s", "h", "_", "f", "l", "o", "w">>,
        variations |-> <<
            <<"c", "a", "s", "h", " ", "f", "r", "o", "m", " ", "o", "p", "e", "r", "a", "t", "i", "n", "g", " ", "a", "c", "t", "i", "v", "i", "t", "i", "e", "s">>,
            <<"o", "p", "e", "r", "a", "t", "i", "n", "g", " ", "c", "a", "s", "h", " ", "f", "l", "o", "w">>,
            <<"n", "e", "t", " ", "c", "a", "s", "h", " ", "f", "r", "o", "m", " ", "o", "p", "e", "r", "a", "t", "i", "o", "n", "s">> >>],
       [label |-> <<"i", "n", "v", "e", "s", "t", "i", "n", "g", "_", "c", "a", "s", "h", "_", "f", "l", "o", "w">>,
        variations |-> <<
            <<"c", "a", "s", "h", " ", "f", "r", "o", "m", " ", "i", "n", "v", "e", "s", "t", "i", "n", "g", " ", "a", "c", "t", "i", "v", "i", "t", "i", "e", "s">>,
            <<"i", "n", "v", "e", "s", "t", "i", "n", "g", " ", "c", "a", "s", "h", " ", "f", "l", "o", "w">>,
            <<"n", "e", "t", " ", "c", "a", "s", "h", " ", "u", "s", "e", "d", " ", "i", "n", " ", "i", "n", "v", "e", "s", "t", "i", "n", "g">> >>],
       [label |-> <<"f", "i", "n", "a", "n", "c", "i", "n", "g", "_", "c", "a", "s", "h", "_", "f", "l", "o", "w">>,
        variations |-> <<
            <<"c", "a", "s", "h", " ", "f", "r", "o", "m", " ", "f", "i", "n", "a", "n", "c", "i", "n", "g", " ", "a", "c", "t", "i", "v", "i", "t", "i", "e", "s">>,
            <<"f", "i", "n", "a", "n", "c", "i", "n", "g", " ", "c", "a", "s", "h", " ", "f", "l", "o", "w">>,
            <<"n", "e", "t", " ", "c", "a", "s", "h", " ", "f", "r", "o", "m", " ", "f", "i", "n", "a", "n", "c", "i", "n", "g">> >>],
       [label |-> <<"f", "r", "e", "e", "_", "c", "a", "s", "h", "_", "f", "l", "o", "w">>,
        variations |-> <<
            <<"f", "r", "e", "e", " ", "c", "a", "s", "h", " ", "f", "l", "o", "w">>,
            <<"f", "c", "f">> >>] >>

\* self.reverse_map.get(label_clean): <<>> without an entry.
ReverseMapGet(label_clean) ==
    LET hits == { k \in 1..Len(STANDARD_LABELS) :
                     label_clean \in Range(STANDARD_LABELS[k].variations) }
    IN IF hits = {} THEN <<>>
       ELSE <<STANDARD_LABELS[CHOOSE k \in hits : \A j \in hits : j <= k].label>>

\* The first standard label, in table order, one of whose variations holds
\* the label or is held by it; <<>> without one.
_fuzzy_match(label) ==
    LET label_lower == Lower(label)
        hits == { k \in 1..Len(STANDARD_LABELS) :
                     \E v \in Range(STANDARD_LABELS[k].variations) :
                        Contains(v, label_lower) \/ Contains(label_lower, v) }
    IN IF hits = {} THEN <<>>
       ELSE <<STANDARD_LABELS[CHOOSE k \in hits : \A j \in hits : k <= j].label>>

standardize_label(label) ==
    LET label_clean == Strip(CollapseSpaces(RemoveParenthesized(Strip(Lower(label)))))
        standard == ReverseMapGet(label_clean)
        fuzzy == _fuzzy_match(label_clean)
    IN IF standard # <<>> THEN standard[1]
       ELSE IF fuzzy # <<>> THEN fuzzy[1]
       ELSE label

\* The labels given to the standardizer: the canonical labels and raw
\* labels of statements.
LabelInputs ==
    { <<"r", "e", "v", "e", "n", "u", "e">>,
      <<"g", "r", "o", "s", "s", "_", "p", "r", "o", "f", "i", "t">>,
      <<"o", "p", "e", "r", "a", "t", "i", "n", "g", "_", "p", "r", "o", "f", "i", "t">>,
      <<"n", "e", "t", "_", "i", "n", "c", "o", "m", "e">>,
      <<"e", "b", "i", "t", "d", "a">>,
      <<"t", "o", "t", "a", "l", "_", "a", "s", "s", "e", "t", "s">>,
      <<"c", "u", "r", "r", "e", "n", "t", "_", "a", "s", "s", "e", "t", "s">>,
      <<"n", "o", "n", "_", "c", "u", "r", "r", "e", "n", "t", "_", "a", "s", "s", "e", "t", "s">>,
      <<"t", "o", "t", "a", "l", "_", "l", "i", "a", "b", "i", "l", "i", "t", "i", "e", "s">>,
      <<"c", "u", "r", "r", "e", "n", "t", "_", "l", "i", "a", "b", "i", "l", "i", "t", "i", "e", "s">>,
      <<"n", "o", "n", "_", "c", "u", "r", "r", "e", "n", "t", "_", "l", "i", "a", "b", "i", "l", "i", "t", "i", "e", "s">>,
      <<"t", "o", "t", "a", "l", "_", "e", "q", "u", "i", "t", "y">>,
      <<"r", "e", "t", "a", "i", "n", "e", "d", "_", "e", "a", "r", "n", "i", "n", "g", "s">>,
      <<"o", "p", "e", "r", "a", "t", "i", "n", "g", "_", "c", "a", "s", "h", "_", "f", "l", "o", "w">>,
      <<"i", "n", "v", "e", "s", "t", "i", "n", "g", "_", "c", "a", "s", "h", "_", "f", "l", "o", "w">>,
      <<"f", "i", "n", "a", "n", "c", "i", "n", "g", "_", "c", "a", "s", "h", "_", "f", "l", "o", "w">>,
      <<"f", "r", "e", "e", "_", "c", "a", "s", "h", "_", "f", "l", "o", "w">>,
      <<"T", "o", "t", "a", "l", " ", "R", "e", "v", "e", "n", "u", "e">>,
      <<"R", "e", "v", "e", "n", "u", "e", " ", "(", "r", "e", "s", "t", "a", "t", "e", "d", ")">>,
      <<"C", "u", "r", "r", "e", "n", "t", " ", "A", "s", "s", "e", "t", "s">>,
      <<" ", " ", "N", "e", "t", " ", " ", "I", "n", "c", "o", "m", "e", " ">>,
      <<"G", "o", "o", "d", "w", "i", "l", "l">>,
      <<>>,
      <<"A", "d", "j", "u", "s", "t", "e", "d", " ", "E", "B", "I", "T", "D", "A", " ", "m", "a", "r", "g", "i", "n">>,
      <<"G", "o", "o", "d", "w", "i", "l", "l", " ", "(", "n", "e", "t", ")">>,
      <<"T", "o", "t", "a", "l", " ", "(", "a", ")", " ", "x", " ", "(", "b", ")", " ", "A", "s", "s", "e", "t", "s">>,
      <<"(", " ", "N", "e", "t", " ", "I", "n", "c", "o", "m", "e">> }

\* The metric names of the candidate pool as texts.
MetricNameText ==
    [ revenue |-> <<"r", "e", "v", "e", "n", "u", "e">>,
      net_income |-> <<"n", "e", "t", "_", "i", "n", "c", "o", "m", "e">>,
      total_assets |-> <<"t", "o", "t", "a", "l", "_", "a", "s", "s", "e", "t", "s">>,
      current_assets |-> <<"c", "u", "r", "r", "e", "n", "t", "_", "a", "s", "s", "e", "t", "s">>,
      non_current_assets |-> <<"n", "o", "n", "_", "c", "u", "r", "r", "e", "n", "t", "_", "a", "s", "s", "e", "t", "s">> ]

\* standardize_label on a metric name of the candidate pool.
standardize_metric_name(name) ==
    LET out == standardize_label(MetricNameText[name])
    IN CHOOSE n \in DOMAIN MetricNameText : MetricNameText[n] = out

normalize_metric(metric) ==
    LET nv == normalize_value(metric.value, metric.currency, metric.scale)
    IN [metric_id |-> metric.candidate_id,
        metric_name |-> standardize_metric_name(metric.metric_name),
        value |-> nv.normalized_value,
        currency |-> nv.normalized_currency,
        scale |-> nv.normalized_scale,
        period_end_date |-> metric.period_end_date]

\* normalize_metrics: one entry per input, in order.
normalize_metrics(metrics) ==
    [i \in 1..Len(metrics) |-> normalize_metric(metrics[i])]

----------------------------------------------------------------------------
(* The workflow (workflow/graph.py, workflow/nodes.py, conditions.py).     *)

\* What the parsers deliver for a document: nothing (which is also what the
\* node stores today), or text blocks and table blocks.
ParserOutputs ==
    { [text_blocks |-> <<>>, table_blocks |-> <<>>],
      [text_blocks |-> <<[block_id |-> "t1", page_number |-> 1]>>,
       table_blocks |-> <<[table_id |-> "tb1", page_number |-> 1]>>] }

\* What the section locator delivers: no section, or the statements it finds.
LocatorOutputs ==
    { <<>>,
      <<[section_id |-> "s1", section_type |-> "income_statement",
         start_page |-> 1, end_page |-> 1]>> }

\* The formats export_all manages to write (each format has its own try).
ExportOutcomes == { {"word", "excel", "json"}, {"json"}, {} }

\* The sections of generate_full_commentary.
CommentarySections ==
    {"executive_summary", "revenue_analysis", "profitability_analysis",
     "balance_sheet_analysis", "cash_flow_analysis"}

\* The pdf_path handed to run_financial_agent: a path, or None.
PdfPaths == {Some("report.pdf"), Absent}

\* initial_state of run_financial_agent; a key not in the dict is Absent.
InitialState(pdf_path) ==
    [raw_pdf_path |-> pdf_path,
     document_metadata |-> Absent,
     text_blocks |-> Absent, table_blocks |-> Absent,
     sections |-> Absent, extracted_tables |-> Absent,
     normalized_metrics |-> Absent, candidates |-> Absent,
     validation_results |-> Absent, has_conflicts |-> Absent,
     validated_metrics |-> Absent, derived_metrics |-> Absent,
     commentary |-> Absent, recent_developments |-> Absent,
     export_paths |-> Absent,
     errors |-> <<>>, node_execution_times |-> {}]

\* state["node_execution_times"][node] = execution_time
Timed(s, node) == [s EXCEPT !.node_execution_times = @ \cup {node}]

\* An except block that also empties the list of candidates.
Failed_clearing(s, node) ==
    [s EXCEPT !.errors = Append(@, [node |-> node]), !.candidates = Some(<<>>)]

\* state.setdefault("errors", []).append({"node": node, ...})
Failed(s, node) == [s EXCEPT !.errors = Append(@, [node |-> node])]

\* A node's service may raise while fewer than MaxFailures nodes have.
MayFail == Len(state.errors) < MaxFailures

\* should_adjudicate
should_adjudicate(s) ==
    IF Get(s.has_conflicts, FALSE) THEN "adjudicate" ELSE "skip"

\* The edges of the graph: the node that runs after `node` returns s.
Successor(node, s) ==
    CASE node = "ingest_pdf" -> "parse_blockify"
      [] node = "parse_blockify" -> "locate_sections"
      [] node = "locate_sections" -> "extract_tables"
      [] node = "extract_tables" -> "normalize_metrics"
      [] node = "normalize_metrics" -> "generate_candidates"
      [] node = "generate_candidates" -> "validate_deterministic"
      [] node = "validate_deterministic" ->
            IF should_adjudicate(s) = "adjudicate" THEN "adjudicate_llm"
            ELSE "compute_derived"
      [] node = "adjudicate_llm" -> "compute_derived"
      [] node = "compute_derived" -> "generate_commentary"
      [] node = "generate_commentary" -> "summarize_news"
      [] node = "summarize_news" -> "export_results"
      [] node = "export_results" -> "END"

\* A graph in which a node's exception ends the run.
Ran_propagating(node, s) ==
    /\ state' = s
    /\ executed' = Append(executed, node)
    /\ pc' = IF Len(s.errors) > Len(state.errors) THEN "ABORTED"
             ELSE Successor(node, s)

\* The graph runs `node`, which returns s, and follows the edge out of it.
Ran(node, s) ==
    /\ state' = s
    /\ executed' = Append(executed, node)
    /\ pc' = Successor(node, s)

\* Every node is a try block around its service with an except block that
\* records the error; both return the state.  In each action below the
\* first disjunct is the except path, the second the path without exception.

\* DocumentMetadata(source_path=pdf_path) raises for a pdf_path that is not a
\* string; the file itself is never looked at.
ingest_pdf_node ==
    /\ pc = "ingest_pdf"
    /\ \/ /\ MayFail \/ state.raw_pdf_path = Absent
          /\ Ran("ingest_pdf", Failed(state, "ingest_pdf"))
       \/ /\ state.raw_pdf_path # Absent
          /\ Ran("ingest_pdf",
                 Timed([state EXCEPT !.document_metadata =
                           Some([company_name |-> "Example Company",
                                 source_path |-> state.raw_pdf_path[1]])],
                       "ingest_pdf"))
    /\ UNCHANGED <<llm_log, service_vars>>

parse_blockify_node ==
    /\ pc = "parse_blockify"
    /\ \/ /\ MayFail
          /\ Ran("parse_blockify", Failed(state, "parse_blockify"))
       \/ \E out \in ParserOutputs :
             Ran("parse_blockify",
                 Timed([state EXCEPT !.text_blocks = Some(out.text_blocks),
                                     !.table_blocks = Some(out.table_blocks)],
                       "parse_blockify"))
    /\ UNCHANGED <<llm_log, service_vars>>

locate_sections_node ==
    /\ pc = "locate_sections"
    /\ \/ /\ MayFail
          /\ Ran("locate_sections", Failed(state, "locate_sections"))
       \/ \E out \in LocatorOutputs :
             Ran("locate_sections",
                 Timed([state EXCEPT !.sections = Some(out)], "locate_sections"))
    /\ UNCHANGED <<llm_log, service_vars>>

extract_tables_node ==
    /\ pc = "extract_tables"
    /\ \/ /\ MayFail
          /\ Ran("extract_tables", Failed(state, "extract_tables"))
       \/ Ran("extract_tables",
              Timed([state EXCEPT !.extracted_tables = Some(<<>>)], "extract_tables"))
    /\ UNCHANGED <<llm_log, service_vars>>

normalize_metrics_node ==
    /\ pc = "normalize_metrics"
    /\ \/ /\ MayFail
          /\ Ran("normalize_metrics",
                 [Failed(state, "normalize_metrics") EXCEPT
                     !.normalized_metrics = Some(<<>>)])
       \/ LET candidates == Get(state.candidates, <<>>)
          IN Ran("normalize_metrics",
                 Timed([state EXCEPT !.normalized_metrics =
                           Some(IF candidates # <<>>
                                THEN normalize_metrics(candidates) ELSE <<>>)],
                       "normalize_metrics"))
    /\ UNCHANGED <<llm_log, service_vars>>

\* The candidate generator returns a scored list when there are sections and
\* blocks to read, and the node stores [] otherwise.
generate_candidates_node ==
    /\ pc = "generate_candidates"
    /\ \/ /\ MayFail
          /\ Ran("generate_candidates",
                 [Failed(state, "generate_candidates") EXCEPT
                     !.candidates = Some(<<>>)])
       \/ LET sections == Get(state.sections, <<>>)
              table_blocks == Get(state.table_blocks, <<>>)
              text_blocks == Get(state.text_blocks, <<>>)
          IN \E candidates \in
                  (IF sections # <<>> /\ (table_blocks # <<>> \/ text_blocks # <<>>)
                   THEN CandidateLists ELSE {<<>>}) :
                Ran("generate_candidates",
                    Timed([state EXCEPT !.candidates = Some(candidates)],
                          "generate_candidates"))
    /\ UNCHANGED <<llm_log, service_vars>>

\* The except block records the error and writes neither validation_results
\* nor has_conflicts.
validate_deterministic_node ==
    /\ pc = "validate_deterministic"
    /\ LET candidates == Get(state.candidates, <<>>)
       IN \/ /\ MayFail \/ ValidateRaises(candidates)
             /\ Ran("validate_deterministic", Failed(state, "validate_deterministic"))
          \/ /\ ~ValidateRaises(candidates)
             /\ \E validation_results \in
                   {IF candidates # <<>> THEN validate_candidates(candidates) ELSE <<>>} :
                LET needs_adjudication ==
                        get_candidates_needing_adjudication(validation_results)
                IN Ran("validate_deterministic",
                       Timed([state EXCEPT
                                 !.validation_results = Some(validation_results),
                                 !.has_conflicts = Some(Len(needs_adjudication) > 0)],
                             "validate_deterministic"))
    /\ UNCHANGED <<llm_log, service_vars>>

\* client: OPENAI_API_KEY is set and the openai package imports.
adjudicate_llm_node ==
    /\ pc = "adjudicate_llm"
    /\ \/ /\ MayFail
          /\ Ran("adjudicate_llm",
                 [Failed(state, "adjudicate_llm") EXCEPT !.validated_metrics = Some(<<>>)])
          /\ UNCHANGED llm_log
       \/ LET candidates == Get(state.candidates, <<>>)
              validation_results == Get(state.validation_results, <<>>)
          IN IF candidates # <<>> /\ validation_results # <<>>
             THEN \E client \in BOOLEAN :
                  \E responses \in ResponseAssignments(_group_candidates(candidates),
                                                       validation_results, client) :
                  \E out \in {adjudicate_candidates(candidates, validation_results,
                                                     client, responses)} :
                     /\ Ran("adjudicate_llm",
                            Timed([state EXCEPT !.validated_metrics = Some(out.metrics)],
                                  "adjudicate_llm"))
                     /\ llm_log' = out.log
             ELSE /\ Ran("adjudicate_llm",
                         Timed([state EXCEPT !.validated_metrics = Some(<<>>)],
                               "adjudicate_llm"))
                  /\ UNCHANGED llm_log
    /\ UNCHANGED service_vars

\* _create_metrics_dict raises on a metric without a period, and the except
\* block stores [].
compute_derived_node ==
    /\ pc = "compute_derived"
    /\ LET validated_metrics == Get(state.validated_metrics, <<>>)
       IN \/ /\ MayFail \/ MetricsDictRaises(validated_metrics)
             /\ Ran("compute_derived",
                    [Failed(state, "compute_derived") EXCEPT
                        !.derived_metrics = Some(<<>>)])
          \/ /\ ~MetricsDictRaises(validated_metrics)
             /\ \E order \in IterationOrders(AllPeriods(validated_metrics)) :
                \E derived_metrics \in
                      {IF validated_metrics # <<>>
                       THEN compute_all_metrics(validated_metrics, order) ELSE <<>>} :
                   Ran("compute_derived",
                       Timed([state EXCEPT !.derived_metrics = Some(derived_metrics)],
                             "compute_derived"))
    /\ UNCHANGED <<llm_log, service_vars>>

generate_commentary_node ==
    /\ pc = "generate_commentary"
    /\ \/ /\ MayFail
          /\ Ran("generate_commentary",
                 [Failed(state, "generate_commentary") EXCEPT !.commentary = Some({})])
       \/ LET validated_metrics == Get(state.validated_metrics, <<>>)
          IN Ran("generate_commentary",
                 Timed([state EXCEPT !.commentary =
                           Some(IF validated_metrics # <<>>
                                THEN CommentarySections ELSE {})],
                       "generate_commentary"))
    /\ UNCHANGED <<llm_log, service_vars>>

summarize_news_node ==
    /\ pc = "summarize_news"
    /\ \/ /\ MayFail
          /\ Ran("summarize_news", Failed(state, "summarize_news"))
       \/ Ran("summarize_news",
              Timed([state EXCEPT !.recent_developments = Some("")], "summarize_news"))
    /\ UNCHANGED <<llm_log, service_vars>>

export_results_node ==
    /\ pc = "export_results"
    /\ \/ /\ MayFail
          /\ Ran("export_results",
                 [Failed(state, "export_results") EXCEPT !.export_paths = Some({})])
       \/ LET metadata == state.document_metadata
              validated_metrics == Get(state.validated_metrics, <<>>)
          IN \E output_paths \in
                  (IF metadata # <<>> /\ validated_metrics # <<>>
                   THEN ExportOutcomes ELSE {{}}) :
                Ran("export_results",
                    Timed([state EXCEPT !.export_paths = Some(output_paths)],
                          "export_results"))
    /\ UNCHANGED <<llm_log, service_vars>>

\* run_financial_agent: the graph starts at its entry point with the
\* initial state.  The table merge is not part of a run.
Init ==
    /\ pc = "ingest_pdf"
    /\ \E pdf_path \in PdfPaths : state = InitialState(pdf_path)
    /\ executed = <<>>
    /\ llm_log = <<>>
    /\ camelot_tables = <<>>
    /\ pdfplumber_tables = <<>>
    /\ merged_tables = <<>>
    /\ merge_pc = "idle"
    /\ parser_priority = <<>>
    /\ parsers = <<>>
    /\ adapter_runs = <<>>
    /\ invoked = <<>>
    /\ parse_return = <<>>
    /\ parse_pc = "idle"
    /\ call = [op |-> "none"]
    /\ ret = <<>>

Next ==
    \/ ingest_pdf_node
    \/ parse_blockify_node
    \/ locate_sections_node
    \/ extract_tables_node
    \/ normalize_metrics_node
    \/ generate_candidates_node
    \/ validate_deterministic_node
    \/ adjudicate_llm_node
    \/ compute_derived_node
    \/ generate_commentary_node
    \/ summarize_news_node
    \/ export_results_node

Spec == Init /\ [][Next]_vars

\* graph.invoke runs the nodes one after the other until END.
FairSpec == Spec /\ WF_vars(Next)

----------------------------------------------------------------------------
(* Table merge of the blockification service (services/blockification.py). *)

\* A rows x cols grid with the given first cell.
TableData(rows, cols, first) ==
    [r \in 1..rows |-> [c \in 1..cols |-> IF r = 1 /\ c = 1 THEN first ELSE <<"0">>]]

\* The tables an adapter may extract, without their ids.
TableBodies ==
    LET Pages == {1, 2}
        datas == { TableData(2, 2, first) :
                      first \in { <<>>, <<"R">>, <<" ", "R">>, <<"A">> } }
                 \cup { TableData(5, 2, <<"R">>), TableData(2, 4, <<"R">>), <<>> }
    IN { [page_number |-> p, data |-> d] : p \in Pages, d \in datas }

\* The list an adapter returns: each table carries a fresh table_id.
AdapterTables(adapter, bodies) ==
    [i \in 1..Len(bodies) |->
        [table_id |-> <<adapter, i>>, page_number |-> bodies[i].page_number,
         data |-> bodies[i].data]]

BodyLists(n) == UNION { [1..k -> TableBodies] : k \in 0..n }

_tables_similar(table1, table2) ==
    IF table1.page_number # table2.page_number THEN FALSE
    ELSE LET rows1 == Len(table1.data)
             cols1 == IF table1.data # <<>> THEN Len(table1.data[1]) ELSE 0
             rows2 == Len(table2.data)
             cols2 == IF table2.data # <<>> THEN Len(table2.data[1]) ELSE 0
         IN IF Abs(rows1 - rows2) > 2 \/ Abs(cols1 - cols2) > 1 THEN FALSE
            ELSE IF table1.data # <<>> /\ table2.data # <<>>
                    /\ table1.data[1] # <<>> /\ table2.data[1] # <<>>
                 THEN LET cell1 == Strip(table1.data[1][1])
                          cell2 == Strip(table2.data[1][1])
                      IN cell1 # <<>> /\ cell2 # <<>> /\ cell1 = cell2
                 ELSE FALSE

\* tables_by_page after the Camelot loop: every table, under its page.
RECURSIVE AddCamelot(_, _)
AddCamelot(tables_by_page, tables) ==
    IF tables = <<>> THEN tables_by_page
    ELSE LET table == Head(tables)
             page == table.page_number
         IN AddCamelot([tables_by_page EXCEPT ![page] = Append(@, table)],
                       Tail(tables))

\* A variant of the pdfplumber loop that compares a table only with the
\* first table already under its page.
RECURSIVE AddPdfplumber_first_only(_, _)
AddPdfplumber_first_only(tables_by_page, tables) ==
    IF tables = <<>> THEN tables_by_page
    ELSE LET table == Head(tables)
             page == table.page_number
             is_duplicate ==
                 /\ tables_by_page[page] # <<>>
                 /\ _tables_similar(table, tables_by_page[page][1])
         IN AddPdfplumber_first_only(
                IF is_duplicate THEN tables_by_page
                ELSE [tables_by_page EXCEPT ![page] = Append(@, table)],
                Tail(tables))

\* tables_by_page after the pdfplumber loop: a table is dropped when it is
\* similar to a table already under its page.
RECURSIVE AddPdfplumber(_, _)
AddPdfplumber(tables_by_page, tables) ==
    IF tables = <<>> THEN tables_by_page
    ELSE LET table == Head(tables)
             page == table.page_number
             is_duplicate ==
                 \E k \in 1..Len(tables_by_page[page]) :
                    _tables_similar(table, tables_by_page[page][k])
         IN AddPdfplumber(IF is_duplicate THEN tables_by_page
                          ELSE [tables_by_page EXCEPT ![page] = Append(@, table)],
                          Tail(tables))

\* A page that is not a key of tables_by_page has the empty list.
_merge_tables(camelot, pdfplumber) ==
    LET pages == {camelot[i].page_number : i \in 1..Len(camelot)}
                 \cup {pdfplumber[i].page_number : i \in 1..Len(pdfplumber)}
        tables_by_page ==
            AddPdfplumber(AddCamelot([p \in pages |-> <<>>], camelot), pdfplumber)
        sorted_pages == SortedSeqOf(pages)
    IN Flatten([k \in 1..Len(sorted_pages) |-> tables_by_page[sorted_pages[k]]])

\* The two adapters have returned their tables.
InitMerge ==
    /\ pc = "idle"
    /\ state = InitialState(Some("report.pdf"))
    /\ executed = <<>>
    /\ llm_log = <<>>
    /\ \E cs \in BodyLists(MaxTables) :
       \E ps \in BodyLists(MaxTables - Len(cs)) :
          /\ camelot_tables = AdapterTables("camelot", cs)
          /\ pdfplumber_tables = AdapterTables("pdfplumber", ps)
    /\ merged_tables = <<>>
    /\ merge_pc = "input"
    /\ parser_priority = <<>>
    /\ parsers = <<>>
    /\ adapter_runs = <<>>
    /\ invoked = <<>>
    /\ parse_return = <<>>
    /\ parse_pc = "idle"
    /\ call = [op |-> "none"]
    /\ ret = <<>>

merge_tables ==
    /\ merge_pc = "input"
    /\ merged_tables' = _merge_tables(camelot_tables, pdfplumber_tables)
    /\ merge_pc' = "merged"
    /\ UNCHANGED <<camelot_tables, pdfplumber_tables, pipeline_vars, parse_vars, call_vars>>

NextMerge == merge_tables

SpecMerge == InitMerge /\ [][NextMerge]_vars

----------------------------------------------------------------------------
(* The blockification service: services/blockification.py.                 *)

\* Most text blocks one adapter returns.
MaxTextBlocks == 1

Adapters == {"pymupdf", "pdfplumber", "camelot"}

\* The values of config.pdf.parser_priority: the adapters in any order,
\* none of them twice.
PriorityLists ==
    { p \in UNION { [1..k -> Adapters] : k \in 0..3 } :
         \A i, j \in 1..Len(p) : i # j => p[i] # p[j] }

\* The constructor of an adapter raises only for Camelot (the library is
\* not installed).
ConstructorMayRaise(parser_name) == parser_name = "camelot"

\* self.parsers after __init__: the configured adapters whose constructor
\* did not raise, in the configured order.
InitParsers(priority, failed) == SelectSeq(priority, LAMBDA name : name \notin failed)

\* The text blocks an adapter extracts: Camelot extracts none.
TextBlocksOf(adapter, n) == [i \in 1..n |-> [block_id |-> <<adapter, i>>, page_number |-> 1]]

\* The outcomes of parse_pdf of one adapter: it raises (success FALSE) or
\* returns (text_blocks, table_blocks).  CamelotParser.parse_pdf catches
\* the failures of both flavors and returns the tables it has.
ParsePdfOutcomes(adapter) ==
    LET tables == { <<>>,
                    AdapterTables(adapter, <<[page_number |-> 1,
                                             data |-> TableData(2, 2, <<"R">>)]>>) }
        texts == IF adapter = "camelot" THEN { <<>> }
                 ELSE { TextBlocksOf(adapter, n) : n \in 0..MaxTextBlocks }
        raised == [success |-> FALSE, text_blocks |-> <<>>, table_blocks |-> <<>>]
    IN { [success |-> TRUE, text_blocks |-> t, table_blocks |-> tb] :
            t \in texts, tb \in tables }
       \cup (IF adapter = "camelot" THEN {} ELSE { raised })

\* parser_results.get(name, {}).get("success")
Succeeded(parser_results, name) ==
    name \in DOMAIN parser_results /\ parser_results[name].success

_merge_parser_results(parser_results) ==
    LET text_blocks ==
            IF Succeeded(parser_results, "pymupdf")
            THEN parser_results["pymupdf"].text_blocks
            ELSE IF Succeeded(parser_results, "pdfplumber")
                 THEN parser_results["pdfplumber"].text_blocks
                 ELSE <<>>
        camelot == IF Succeeded(parser_results, "camelot")
                   THEN parser_results["camelot"].table_blocks ELSE <<>>
        pdfplumber == IF Succeeded(parser_results, "pdfplumber")
                      THEN parser_results["pdfplumber"].table_blocks ELSE <<>>
    IN [text_blocks |-> text_blocks,
        table_blocks |-> _merge_tables(camelot, pdfplumber)]

\* A service in which the exception of an adapter leaves parse.
parse_service_propagating(the_parsers, runs) ==
    LET parser_results == [name \in Range(the_parsers) |-> runs[name]]
        merged == _merge_parser_results(parser_results)
        failed == { i \in 1..Len(the_parsers) : ~runs[the_parsers[i]].success }
    IN IF failed # {}
       THEN [op |-> "parse", raised |-> TRUE,
             invoked |-> SubSeq(the_parsers, 1, CHOOSE i \in failed : \A j \in failed : i <= j),
             text_blocks |-> <<>>, table_blocks |-> <<>>]
       ELSE [op |-> "parse", raised |-> FALSE, invoked |-> the_parsers,
             text_blocks |-> merged.text_blocks, table_blocks |-> merged.table_blocks]

\* BlockificationService.parse: every adapter of self.parsers runs, then
\* the results are merged.
parse_service(the_parsers, runs) ==
    LET parser_results == [name \in Range(the_parsers) |-> runs[name]]
        merged == _merge_parser_results(parser_results)
    IN [op |-> "parse", raised |-> FALSE, invoked |-> the_parsers,
        text_blocks |-> merged.text_blocks, table_blocks |-> merged.table_blocks]

\* A variant of the fallback loop that keeps calling the adapters after
\* one succeeded and returns the last successful pair.
RECURSIVE FallbackFrom_last_success(_, _, _, _, _)
FallbackFrom_last_success(priority, the_parsers, runs, k, called) ==
    LET name == priority[k]
        last == { i \in 1..Len(called) : runs[called[i]].success }
        best == called[CHOOSE i \in last : \A j \in last : j <= i]
    IN IF k > Len(priority)
       THEN IF last = {}
            THEN [op |-> "parse_with_fallback", raised |-> TRUE, invoked |-> called,
                  text_blocks |-> <<>>, table_blocks |-> <<>>]
            ELSE [op |-> "parse_with_fallback", raised |-> FALSE, invoked |-> called,
                  text_blocks |-> runs[best].text_blocks,
                  table_blocks |-> runs[best].table_blocks]
       ELSE IF name \notin Range(the_parsers)
            THEN FallbackFrom_last_success(priority, the_parsers, runs, k + 1, called)
            ELSE FallbackFrom_last_success(priority, the_parsers, runs, k + 1,
                                           Append(called, name))

\* The loop of parse_with_fallback from position k of parser_priority on,
\* `called` being the adapters tried so far.
RECURSIVE FallbackFrom(_, _, _, _, _)
FallbackFrom(priority, the_parsers, runs, k, called) ==
    IF k > Len(priority)
    THEN [op |-> "parse_with_fallback", raised |-> TRUE, invoked |-> called,
          text_blocks |-> <<>>, table_blocks |-> <<>>]
    ELSE LET name == priority[k]
         IN IF name \notin Range(the_parsers)
            THEN FallbackFrom(priority, the_parsers, runs, k + 1, called)
            ELSE IF runs[name].success
                 THEN [op |-> "parse_with_fallback", raised |-> FALSE,
                       invoked |-> Append(called, name),
                       text_blocks |-> runs[name].text_blocks,
                       table_blocks |-> runs[name].table_blocks]
                 ELSE FallbackFrom(priority, the_parsers, runs, k + 1,
                                   Append(called, name))

\* The service has been constructed and is about to parse a document.
InitParse ==
    /\ pc = "idle"
    /\ state = InitialState(Some("report.pdf"))
    /\ executed = <<>>
    /\ llm_log = <<>>
    /\ camelot_tables = <<>>
    /\ pdfplumber_tables = <<>>
    /\ merged_tables = <<>>
    /\ merge_pc = "idle"
    /\ parser_priority \in PriorityLists
    /\ \E failed \in SUBSET { a \in Adapters : ConstructorMayRaise(a) } :
          parsers = InitParsers(parser_priority, failed)
    /\ adapter_runs \in [Adapters -> UNION { ParsePdfOutcomes(a) : a \in Adapters }]
    /\ \A a \in Adapters : adapter_runs[a] \in ParsePdfOutcomes(a)
    /\ invoked = <<>>
    /\ parse_return = <<>>
    /\ parse_pc = "ready"
    /\ call = [op |-> "none"]
    /\ ret = <<>>

parse ==
    /\ parse_pc = "ready"
    /\ \E r \in { parse_service(parsers, adapter_runs) } :
          /\ invoked' = r.invoked
          /\ parse_return' = Some(r)
    /\ parse_pc' = "returned"
    /\ UNCHANGED <<parser_priority, parsers, adapter_runs,
                   pipeline_vars, merge_vars, call_vars>>

parse_with_fallback ==
    /\ parse_pc = "ready"
    /\ \E r \in { FallbackFrom(parser_priority, parsers, adapter_runs, 1, <<>>) } :
          /\ invoked' = r.invoked
          /\ parse_return' = Some(r)
    /\ parse_pc' = "returned"
    /\ UNCHANGED <<parser_priority, parsers, adapter_runs,
                   pipeline_vars, merge_vars, call_vars>>

NextParse == parse \/ parse_with_fallback

SpecParse == InitParse /\ [][NextParse]_vars

----------------------------------------------------------------------------
(* The section locator: services/section_locator.py, services/patterns.py. *)

\* Longest stream of text blocks given to the locator.
MaxBlocks == 4
\* Last page of the document.
MaxPage == 2

\* Texts of the blocks of a document.
BlockTexts ==
    { "Consolidated Income Statement", "Balance Sheet", "Financial Summary",
      "The group traded in line with expectations." }

\* The section types whose patterns are found in the text, in the order
\* of get_all_patterns.
match_section_type(text) ==
    CASE text = "Consolidated Income Statement" -> <<"income_statement">>
      [] text = "Balance Sheet" -> <<"balance_sheet">>
      [] OTHER -> <<>>

\* A short text is a header when a pattern matches it, or when it is in
\* title case or upper case and holds a financial keyword.
is_section_header(text) ==
    \/ match_section_type(text) # <<>>
    \/ text = "Financial Summary"

\* The streams of text blocks: the blocks come page after page.
TextBlockStreams ==
    { bs \in UNION { [1..n -> [text : BlockTexts, page_number : 1..MaxPage]] :
                        n \in 0..MaxBlocks } :
         \A i \in 1..Len(bs) : i > 1 => bs[i - 1].page_number <= bs[i].page_number }

\* A locator that ends a section on the page before the next header, also
\* when that header is on the section's own page.
_locate_sections_regex_unclamped(text_blocks) ==
    LET header_idx == { i \in 1..Len(text_blocks) :
                           /\ is_section_header(text_blocks[i].text)
                           /\ match_section_type(text_blocks[i].text) # <<>> }
        idxs == SortedSeqOf(header_idx)
    IN [k \in 1..Len(idxs) |->
           [section_id |-> <<match_section_type(text_blocks[idxs[k]].text)[1],
                             text_blocks[idxs[k]].page_number>>,
            section_type |-> match_section_type(text_blocks[idxs[k]].text)[1],
            section_name |-> text_blocks[idxs[k]].text,
            start_page |-> text_blocks[idxs[k]].page_number,
            end_page |-> IF k < Len(idxs)
                         THEN text_blocks[idxs[k + 1]].page_number - 1
                         ELSE text_blocks[Len(text_blocks)].page_number,
            confidence_score |-> 90,
            detection_method |-> "regex"]]

_locate_sections_regex(text_blocks) ==
    LET header_idx == { i \in 1..Len(text_blocks) :
                           /\ is_section_header(text_blocks[i].text)
                           /\ match_section_type(text_blocks[i].text) # <<>> }
        idxs == SortedSeqOf(header_idx)
        section_candidates ==
            [k \in 1..Len(idxs) |->
                [type |-> match_section_type(text_blocks[idxs[k]].text)[1],
                 name |-> text_blocks[idxs[k]].text,
                 start_page |-> text_blocks[idxs[k]].page_number,
                 start_block_idx |-> idxs[k],
                 confidence |-> 90]]
        EndPage(i) ==
            IF i + 1 <= Len(section_candidates)
            THEN IF section_candidates[i + 1].start_page - 1 < section_candidates[i].start_page
                 THEN section_candidates[i].start_page
                 ELSE section_candidates[i + 1].start_page - 1
            ELSE text_blocks[Len(text_blocks)].page_number
    IN [i \in 1..Len(section_candidates) |->
           [section_id |-> <<section_candidates[i].type, section_candidates[i].start_page>>,
            section_type |-> section_candidates[i].type,
            section_name |-> section_candidates[i].name,
            start_page |-> section_candidates[i].start_page,
            end_page |-> EndPage(i),
            confidence_score |-> section_candidates[i].confidence,
            detection_method |-> "regex"]]

\* sorted(sections, key=start_page): a stable sort.
SortedByStartPage(sections) ==
    LET Before(i, j) == \/ sections[i].start_page < sections[j].start_page
                        \/ /\ sections[i].start_page = sections[j].start_page
                           /\ i < j
        Rank(i) == Cardinality({ j \in 1..Len(sections) : Before(j, i) }) + 1
    IN [k \in 1..Len(sections) |->
           sections[CHOOSE i \in 1..Len(sections) : Rank(i) = k]]

Max(a, b) == IF a >= b THEN a ELSE b

_merge_sections(sections) ==
    IF sections = <<>> THEN <<>>
    ELSE LET sorted_sections == SortedByStartPage(sections)
             \* the loop state after the k-th section of sorted_sections
             loop[k \in 1..Len(sorted_sections)] ==
                 IF k = 1 THEN [merged |-> <<>>, current |-> sorted_sections[1]]
                 ELSE LET prev == loop[k - 1]
                          current == prev.current
                          next_section == sorted_sections[k]
                      IN IF /\ next_section.section_type = current.section_type
                            /\ next_section.start_page <= current.end_page + 1
                         THEN [merged |-> prev.merged,
                               current |->
                                  [current EXCEPT
                                     !.end_page = Max(current.end_page,
                                                      next_section.end_page),
                                     !.confidence_score =
                                         Max(current.confidence_score,
                                             next_section.confidence_score)]]
                         ELSE [merged |-> Append(prev.merged, current),
                               current |-> next_section]
             last == loop[Len(sorted_sections)]
         IN Append(last.merged, last.current)

locate_sections(text_blocks) == _merge_sections(_locate_sections_regex(text_blocks))

----------------------------------------------------------------------------
(* Period labels: PeriodParser of utils/periods.py.  A label is a sequence *)
(* of one-character strings; re.search is the leftmost match.              *)

Digit == [c \in {"0", "1", "2", "3", "4", "5", "6", "7", "8", "9"} |->
             CASE c = "0" -> 0 [] c = "1" -> 1 [] c = "2" -> 2 [] c = "3" -> 3
               [] c = "4" -> 4 [] c = "5" -> 5 [] c = "6" -> 6 [] c = "7" -> 7
               [] c = "8" -> 8 [] c = "9" -> 9]

DigitChar == <<"0", "1", "2", "3", "4", "5", "6", "7", "8", "9">>

\* The character at position i, "" beyond the end.
At(s, i) == IF i \in 1..Len(s) THEN s[i] ELSE ""

IsDigit(c) == c \in DOMAIN Digit

\* [A-Za-z]
IsAlpha(c) ==
    \/ c \in DOMAIN UpperToLower
    \/ \E u \in DOMAIN UpperToLower : UpperToLower[u] = c

\* \s* from position i: the position of the first character that is no space.
SkipSpaces(s, i) ==
    CHOOSE j \in i..(Len(s) + 1) :
        /\ At(s, j) # " "
        /\ \A k \in i..(j - 1) : s[k] = " "

\* The word, in lower case, stands at position i (re.IGNORECASE).
LitAt(s, i, word) ==
    /\ i >= 1 /\ i + Len(word) - 1 <= Len(s)
    /\ Lower(SubSeq(s, i, i + Len(word) - 1)) = word

\* \d{n} at position i.
DigitsAt(s, i, n) == \A k \in 0..(n - 1) : IsDigit(At(s, i + k))

\* int() of the n digits at position i.
RECURSIVE NumAt(_, _, _)
NumAt(s, i, n) ==
    IF n = 0 THEN 0 ELSE NumAt(s, i, n - 1) * 10 + Digit[s[i + n - 1]]

\* str() of a natural number.
RECURSIVE NumToText(_)
NumToText(n) ==
    IF n < 10 THEN <<DigitChar[n + 1]>>
    ELSE Append(NumToText(n \div 10), DigitChar[(n % 10) + 1])

\* LET v == value IN Body(v), the value being written once.
Bind(value, Body(_)) == Body(value)

\* The first match of alternatives tried in order; <<>> when none matches.
FirstMatch(matches) ==
    LET hits == { k \in 1..Len(matches) : matches[k] # <<>> }
    IN IF hits = {} THEN <<>>
       ELSE matches[CHOOSE k \in hits : \A j \in hits : k <= j]

\* re.search: the match at the leftmost position where the pattern matches.
Search(s, MatchAt(_, _)) ==
    LET hits == { i \in 1..Len(s) : MatchAt(s, i) # <<>> }
    IN IF hits = {} THEN <<>>
       ELSE MatchAt(s, CHOOSE i \in hits : \A j \in hits : i <= j)

\* (\d{1,2})\s+([A-Za-z]+)\s+(\d{4}) at position i: <<day, month_str, year>>.
DayMonthYearAt(s, i) ==
    Bind(IF IsDigit(At(s, i)) /\ IsDigit(At(s, i + 1)) /\ At(s, i + 2) = " " THEN 2
         ELSE IF IsDigit(At(s, i)) /\ At(s, i + 1) = " " THEN 1 ELSE 0, LAMBDA nd :
    IF nd = 0 THEN <<>>
    ELSE
    Bind(SkipSpaces(s, i + nd), LAMBDA w :
    Bind(CHOOSE j \in w..(Len(s) + 1) :
            /\ ~IsAlpha(At(s, j))
            /\ \A k \in w..(j - 1) : IsAlpha(s[k]), LAMBDA we :
    Bind(SkipSpaces(s, we), LAMBDA y :
        IF we > w /\ y > we /\ DigitsAt(s, y, 4)
        THEN << <<NumAt(s, i, nd), Lower(SubSeq(s, w, we - 1)), NumAt(s, y, 4)>> >>
        ELSE <<>>))))

\* The position after the first k words at position i, the words separated
\* by \s+; 0 when they are not there.
RECURSIVE WordsEnd(_, _, _, _)
WordsEnd(s, i, words, k) ==
    IF k = 0 THEN i
    ELSE Bind(WordsEnd(s, i, words, k - 1), LAMBDA before :
         IF before = 0 THEN 0
         ELSE Bind(IF k = 1 THEN before ELSE SkipSpaces(s, before), LAMBDA p :
              IF (k = 1 \/ p > before) /\ LitAt(s, p, words[k])
              THEN p + Len(words[k]) ELSE 0))

\* A prefix made of words separated by \s+, then \s+ and day, month, year.
WordsThenDateAt(s, i, words) ==
    Bind(WordsEnd(s, i, words, Len(words)), LAMBDA end :
    IF end = 0 THEN <<>>
    ELSE
    \* "ended?": the d is optional
    Bind(IF words[Len(words)] = <<"e", "n", "d", "e">> /\ Lower(<<At(s, end)>>) = <<"d">>
         THEN end + 1 ELSE end, LAMBDA after :
    Bind(SkipSpaces(s, after), LAMBDA day :
        IF day = after THEN <<>> ELSE DayMonthYearAt(s, day))))

\* \s*[:\-]?\s*(\d{4}) at position after.
FyYearAfter(s, after) ==
    Bind(SkipSpaces(s, after), LAMBDA p :
    Bind(IF At(s, p) \in {":", "-"} THEN SkipSpaces(s, p + 1) ELSE p, LAMBDA q :
        IF DigitsAt(s, q, 4) THEN << <<NumAt(s, q, 4)>> >> ELSE <<>>))

\* FY_PATTERNS[0]: (?:FY|Fiscal\s+Year)\s*[:\-]?\s*(\d{4})
FyPattern1At(s, i) ==
    IF LitAt(s, i, <<"f", "y">>) THEN FyYearAfter(s, i + 2)
    ELSE IF LitAt(s, i, <<"f", "i", "s", "c", "a", "l">>)
    THEN Bind(SkipSpaces(s, i + 6), LAMBDA year_word :
              IF year_word > i + 6 /\ LitAt(s, year_word, <<"y", "e", "a", "r">>)
              THEN FyYearAfter(s, year_word + 4) ELSE <<>>)
    ELSE <<>>

\* FY_PATTERNS[1]: (?:Year\s+ended?|YE)\s+(\d{1,2})\s+([A-Za-z]+)\s+(\d{4})
FyPattern2At(s, i) ==
    FirstMatch(<< WordsThenDateAt(s, i, << <<"y", "e", "a", "r">>, <<"e", "n", "d", "e">> >>),
                  WordsThenDateAt(s, i, << <<"y", "e">> >>) >>)

\* FY_PATTERNS[3]: (\d{4})\s*[-/]\s*(\d{2,4}): <<year1, year2, len(year2_str)>>
FyPattern4At(s, i) ==
    IF ~DigitsAt(s, i, 4) THEN <<>>
    ELSE
    Bind(SkipSpaces(s, i + 4), LAMBDA p :
    IF At(s, p) \notin {"-", "/"} THEN <<>>
    ELSE
    Bind(SkipSpaces(s, p + 1), LAMBDA q :
    Bind(IF DigitsAt(s, q, 4) THEN 4 ELSE IF DigitsAt(s, q, 3) THEN 3
         ELSE IF DigitsAt(s, q, 2) THEN 2 ELSE 0, LAMBDA n :
        IF n > 0 THEN << <<NumAt(s, i, 4), NumAt(s, q, n), n>> >> ELSE <<>>)))

\* FY_PATTERNS[4]: For\s+the\s+year\s+ended?\s+(\d{1,2})\s+([A-Za-z]+)\s+(\d{4})
FyPattern5At(s, i) ==
    WordsThenDateAt(s, i, << <<"f", "o", "r">>, <<"t", "h", "e">>,
                             <<"y", "e", "a", "r">>, <<"e", "n", "d", "e">> >>)

\* \s*(\d)\s*(?:FY)?(\d{4}) at position start: <<digit, year>>
DigitYearAfter(s, start) ==
    Bind(SkipSpaces(s, start), LAMBDA d :
    IF ~IsDigit(At(s, d)) THEN <<>>
    ELSE
    Bind(SkipSpaces(s, d + 1), LAMBDA f :
    Bind(IF LitAt(s, f, <<"f", "y">>) /\ DigitsAt(s, f + 2, 4) THEN f + 2 ELSE f, LAMBDA y :
        IF DigitsAt(s, y, 4) THEN << <<NumAt(s, d, 1), NumAt(s, y, 4)>> >> ELSE <<>>)))

\* (?:Q|Quarter)\s*(\d)\s*(?:FY)?(\d{4}) and the same with H|Half:
\* <<digit, year>>
LetterDigitYearAt(s, i, letter, word) ==
    FirstMatch(<< IF LitAt(s, i, letter) THEN DigitYearAfter(s, i + 1) ELSE <<>>,
                  IF LitAt(s, i, word) THEN DigitYearAfter(s, i + Len(word)) ELSE <<>> >>)

QuarterPattern1At(s, i) ==
    LetterDigitYearAt(s, i, <<"q">>, <<"q", "u", "a", "r", "t", "e", "r">>)

\* QUARTER_PATTERNS[1]: (\d)(?:st|nd|rd|th)\s+Quarter\s+(\d{4})
QuarterPattern2At(s, i) ==
    LET q == SkipSpaces(s, i + 3)
        y == SkipSpaces(s, q + 7)
    IN IF /\ IsDigit(At(s, i))
          /\ \E suffix \in {<<"s", "t">>, <<"n", "d">>, <<"r", "d">>, <<"t", "h">>} :
                LitAt(s, i + 1, suffix)
          /\ q > i + 3
          /\ LitAt(s, q, <<"q", "u", "a", "r", "t", "e", "r">>)
          /\ y > q + 7
          /\ DigitsAt(s, y, 4)
       THEN << <<NumAt(s, i, 1), NumAt(s, y, 4)>> >>
       ELSE <<>>

\* QUARTER_PATTERNS[2]: Three\s+months\s+ended?\s+ day month year
QuarterPattern3At(s, i) ==
    WordsThenDateAt(s, i, << <<"t", "h", "r", "e", "e">>, <<"m", "o", "n", "t", "h", "s">>,
                             <<"e", "n", "d", "e">> >>)

HalfPattern1At(s, i) == LetterDigitYearAt(s, i, <<"h">>, <<"h", "a", "l", "f">>)

\* HALF_YEAR_PATTERNS[1]: Six\s+months\s+ended?\s+ day month year
HalfPattern2At(s, i) ==
    WordsThenDateAt(s, i, << <<"s", "i", "x">>, <<"m", "o", "n", "t", "h", "s">>,
                             <<"e", "n", "d", "e">> >>)

\* MONTH_MAP.get(month_str[:3]): 0 for None.
MonthOf(month_str) ==
    LET key == SubSeq(month_str, 1, IF Len(month_str) < 3 THEN Len(month_str) ELSE 3)
    IN CASE key = <<"j", "a", "n">> -> 1 [] key = <<"f", "e", "b">> -> 2
         [] key = <<"m", "a", "r">> -> 3 [] key = <<"a", "p", "r">> -> 4
         [] key = <<"m", "a", "y">> -> 5 [] key = <<"j", "u", "n">> -> 6
         [] key = <<"j", "u", "l">> -> 7 [] key = <<"a", "u", "g">> -> 8
         [] key = <<"s", "e", "p">> -> 9 [] key = <<"o", "c", "t">> -> 10
         [] key = <<"n", "o", "v">> -> 11 [] key = <<"d", "e", "c">> -> 12
         [] OTHER -> 0

\* What a parser returns: None, a period, or an exception.
NoPeriodInfo == [raised |-> FALSE, value |-> <<>>]
PeriodRaised == [raised |-> TRUE, value |-> <<>>]
PeriodInfo(period_type, end_date, fiscal_year, quarter, half) ==
    [raised |-> FALSE,
     value |-> <<[period_type |-> period_type, end_date |-> end_date,
                  fiscal_year |-> fiscal_year, quarter |-> quarter, half |-> half]>>]

\* The branch of three groups: day, month name, year.  <<>> stands for
\* `continue` (an unknown month); date() raises on a day the month lacks.
DateBranch(groups, period_type) ==
    LET day == groups[1]
        month == MonthOf(groups[2])
        year == groups[3]
    IN IF month = 0 THEN <<>>
       ELSE IF ~ValidDate(year, month, day) THEN <<PeriodRaised>>
       ELSE CASE period_type = "fiscal_year" ->
                   <<PeriodInfo("fiscal_year", <<year, month, day>>, year, <<>>, <<>>)>>
              [] period_type = "quarter" ->
                   IF ~ValidDate(IF month > 3 THEN year ELSE year - 1,
                                 IF month > 3 THEN month - 3 ELSE month + 9, day)
                   THEN <<PeriodRaised>>
                   ELSE <<PeriodInfo("quarter", <<year, month, day>>, year,
                                     <<((month - 1) \div 3) + 1>>, <<>>)>>
              [] period_type = "half_year" ->
                   IF ~ValidDate(IF month > 6 THEN year ELSE year - 1,
                                 IF month > 6 THEN month - 6 ELSE month + 6, day)
                   THEN <<PeriodRaised>>
                   ELSE <<PeriodInfo("half_year", <<year, month, day>>, year,
                                     <<>>, <<IF month <= 6 THEN 1 ELSE 2>>)>>

\* The first pattern, in order, that matches and does not `continue`.
FirstOutcome(outcomes) ==
    LET hits == { k \in 1..Len(outcomes) : outcomes[k] # <<>> }
    IN IF hits = {} THEN NoPeriodInfo
       ELSE outcomes[CHOOSE k \in hits : \A j \in hits : k <= j][1]

_parse_fiscal_year(label) ==
    LET One(m) == IF m = <<>> THEN <<>>
                  ELSE <<PeriodInfo("fiscal_year", <<m[1][1], 12, 31>>, m[1][1], <<>>, <<>>)>>
        Three(m) == IF m = <<>> THEN <<>> ELSE DateBranch(m[1], "fiscal_year")
        Two(m) ==
            IF m = <<>> THEN <<>>
            ELSE LET year1 == m[1][1]
                     year2 == IF m[1][3] = 2 THEN (year1 \div 100) * 100 + m[1][2]
                              ELSE m[1][2]
                 IN IF year2 < 1 \/ year1 < 1 THEN <<PeriodRaised>>
                    ELSE <<PeriodInfo("fiscal_year", <<year2, 12, 31>>, year2, <<>>, <<>>)>>
    IN FirstOutcome(<< One(Search(label, FyPattern1At)),
                       Three(Search(label, FyPattern2At)),
                       Three(Search(label, DayMonthYearAt)),
                       Two(Search(label, FyPattern4At)),
                       Three(Search(label, FyPattern5At)) >>)

_parse_quarter(label) ==
    LET quarter_ends == << <<3, 31>>, <<6, 30>>, <<9, 30>>, <<12, 31>> >>
        Two(m) ==
            IF m = <<>> THEN <<>>
            ELSE LET quarter == m[1][1]
                     fiscal_year == m[1][2]
                 IN IF quarter \notin 1..4 \/ fiscal_year < 1 THEN <<PeriodRaised>>
                    ELSE <<PeriodInfo("quarter",
                                      <<fiscal_year, quarter_ends[quarter][1],
                                        quarter_ends[quarter][2]>>,
                                      fiscal_year, <<quarter>>, <<>>)>>
        Three(m) == IF m = <<>> THEN <<>> ELSE DateBranch(m[1], "quarter")
    IN FirstOutcome(<< Two(Search(label, QuarterPattern1At)),
                       Two(Search(label, QuarterPattern2At)),
                       Three(Search(label, QuarterPattern3At)) >>)

_parse_half_year(label) ==
    LET Two(m) ==
            IF m = <<>> THEN <<>>
            ELSE LET half == m[1][1]
                     fiscal_year == m[1][2]
                 IN IF fiscal_year < 1 THEN <<PeriodRaised>>
                    ELSE <<PeriodInfo("half_year",
                                      IF half = 1 THEN <<fiscal_year, 6, 30>>
                                      ELSE <<fiscal_year, 12, 31>>,
                                      fiscal_year, <<>>, <<half>>)>>
        Three(m) == IF m = <<>> THEN <<>> ELSE DateBranch(m[1], "half_year")
    IN FirstOutcome(<< Two(Search(label, HalfPattern1At)),
                       Three(Search(label, HalfPattern2At)) >>)

parse_period_label(label) ==
    Bind(Strip(label), LAMBDA label_clean :
    Bind(_parse_fiscal_year(label_clean), LAMBDA fy_result :
    IF fy_result # NoPeriodInfo THEN fy_result
    ELSE
    Bind(_parse_quarter(label_clean), LAMBDA quarter_result :
    IF quarter_result # NoPeriodInfo THEN quarter_result
    ELSE _parse_half_year(label_clean))))

\* normalize_period_label: the text returned, or the exception of the parser.
normalize_period_label(label) ==
    Bind(parse_period_label(label), LAMBDA parsed :
    IF parsed.raised THEN [raised |-> TRUE, text |-> <<>>]
    ELSE IF parsed.value = <<>> THEN [raised |-> FALSE, text |-> label]
    ELSE LET p == parsed.value[1]
         IN [raised |-> FALSE,
             text |->
               CASE p.period_type = "fiscal_year" ->
                      <<"F", "Y">> \o NumToText(p.fiscal_year)
                 [] p.period_type = "quarter" ->
                      <<"Q">> \o NumToText(p.quarter[1]) \o <<"-">>
                          \o NumToText(p.fiscal_year)
                 [] p.period_type = "half_year" ->
                      <<"H">> \o NumToText(p.half[1]) \o <<"-">>
                          \o NumToText(p.fiscal_year)])

\* Period labels as they stand in column headers, and texts that are none.
PeriodLabels ==
    { <<"F", "Y", "2", "0", "2", "3">>,
      <<"F", "Y", " ", "2", "0", "2", "3">>,
      <<"F", "i", "s", "c", "a", "l", " ", "Y", "e", "a", "r", " ", "2", "0", "2", "3">>,
      <<"F", "Y", ":", " ", "2", "0", "2", "2">>,
      <<"Y", "e", "a", "r", " ", "e", "n", "d", "e", "d", " ", "3", "1", " ", "D", "e", "c", " ", "2", "0", "2", "3">>,
      <<"Y", "E", " ", "3", "1", " ", "M", "a", "r", " ", "2", "0", "2", "3">>,
      <<"3", "1", " ", "M", "a", "r", "c", "h", " ", "2", "0", "2", "3">>,
      <<"2", "0", "2", "3", "-", "2", "4">>,
      <<"2", "0", "2", "3", "/", "2", "0", "2", "4">>,
      <<"Q", "1", " ", "2", "0", "2", "3">>,
      <<"Q", "1", " ", "F", "Y", "2", "0", "2", "3">>,
      <<"Q", "u", "a", "r", "t", "e", "r", " ", "2", " ", "2", "0", "2", "3">>,
      <<"1", "s", "t", " ", "Q", "u", "a", "r", "t", "e", "r", " ", "2", "0", "2", "3">>,
      <<"T", "h", "r", "e", "e", " ", "m", "o", "n", "t", "h", "s", " ", "e", "n", "d", "e", "d", " ", "3", "1", " ", "M", "a", "r", " ", "2", "0", "2", "3">>,
      <<"H", "1", " ", "2", "0", "2", "3">>,
      <<"H", "a", "l", "f", " ", "2", " ", "2", "0", "2", "3">>,
      <<"H", "1", " ", "F", "Y", "2", "0", "2", "3">>,
      <<"S", "i", "x", " ", "m", "o", "n", "t", "h", "s", " ", "e", "n", "d", "e", "d", " ", "3", "0", " ", "J", "u", "n", " ", "2", "0", "2", "3">>,
      <<"F", "o", "r", " ", "t", "h", "e", " ", "y", "e", "a", "r", " ", "e", "n", "d", "e", "d", " ", "2", "9", " ", "F", "e", "b", " ", "2", "0", "2", "4">>,
      <<"Q", "1", "-", "2", "0", "2", "3">>,
      <<"H", "1", "-", "2", "0", "2", "3">>,
      <<"Q", "5", " ", "2", "0", "2", "3">>,
      <<"H", "3", " ", "2", "0", "2", "3">>,
      <<"2", "0", "2", "3">>,
      <<"R", "e", "v", "e", "n", "u", "e">>,
      <<"Q", "4", "2", "0", "2", "2">>,
      <<"H", "2", "2", "0", "2", "3">>,
      <<" ", " ", "F", "Y", "2", "0", "2", "3", " ">>,
      <<"Y", "e", "a", "r", " ", "e", "n", "d", "e", "d", " ", "3", "0", " ", "F", "e", "b", " ", "2", "0", "2", "3">>,
      <<"T", "h", "r", "e", "e", " ", "m", "o", "n", "t", "h", "s", " ", "e", "n", "d", "e", "d", " ", "3", "1", " ", "X", "y", "z", " ", "2", "0", "2", "3">>,
      <<"N", "o", "t", "e", "s">> }

----------------------------------------------------------------------------
(* Calls of the service functions: a call is drawn with its arguments and   *)
(* returns its value.                                                       *)

LocateSectionsCalls ==
    { [op |-> "locate_sections", text_blocks |-> bs] : bs \in TextBlockStreams }

StandardizeLabelCalls ==
    { [op |-> "standardize_label", label |-> l] : l \in LabelInputs }

\* Candidates around the arithmetic identities: a total with its two
\* components, at and beyond the tolerance, a gross profit whose
\* components cancel, a period ending on 29 February and a gross profit
\* without a period.
ArithmeticPool ==
    { Cand("a1", "total_assets", 1000, "GBP", "millions", FY2023, 90),
      Cand("a2", "total_assets", 1060, "GBP", "millions", FY2023, 89),
      Cand("a3", "total_assets", 1050, "GBP", "millions", FY2023, 88),
      Cand("a4", "current_assets", 300, "GBP", "millions", FY2023, 87),
      Cand("a5", "non_current_assets", 700, "GBP", "millions", FY2023, 86),
      Cand("a6", "gross_profit", 10, "GBP", "millions", FY2022, 85),
      Cand("a7", "revenue", 500, "GBP", "millions", FY2022, 84),
      Cand("a8", "cost_of_sales", 500, "GBP", "millions", FY2022, 83),
      Cand("a9", "revenue", 520, "GBP", "millions", <<2024, 2, 29>>, 82),
      Cand("a10", "gross_profit", 600, "GBP", "millions", NoPeriod, 81) }

ValidateCandidatesCalls ==
    { [op |-> "validate_candidates", candidates |-> cs] :
         cs \in { l \in UNION {[1..n -> ArithmeticPool] : n \in 0..MaxCands} :
                    /\ \A i, j \in 1..Len(l) : i # j => l[i] # l[j]
                    /\ SortedByConfidence(l) } }

\* Longest list of validated metrics given to compute_all_metrics.
MaxMetrics == 4

\* Validated metrics with a growth target: year ends, a half-year date, a
\* zero value and a negative value.
ValidatedMetricPool ==
    { _candidate_to_metric(c, <<>>, <<>>, <<>>) :
         c \in { Cand("m1", "revenue", 1100, "GBP", "millions", FY2023, 90),
                 Cand("m2", "revenue", 1000, "GBP", "millions", FY2022, 90),
                 Cand("m3", "revenue", 1050, "GBP", "millions", <<2023, 6, 30>>, 90),
                 Cand("m4", "revenue", 0, "GBP", "millions", <<2021, 12, 31>>, 90),
                 Cand("m5", "net_income", -200, "GBP", "millions", FY2022, 90),
                 Cand("m6", "net_income", 100, "GBP", "millions", FY2023, 90),
                 Cand("m7", "total_assets", 1000, "GBP", "millions", FY2023, 90) } }

\* The adjudicated sets: one metric per (metric_name, period) group.
ComputeAllMetricsCalls ==
    { [op |-> "compute_all_metrics", validated_metrics |-> ms] :
         ms \in { l \in UNION {[1..n -> ValidatedMetricPool] : n \in 0..MaxMetrics} :
                    \A i, j \in 1..Len(l) :
                       i # j => <<l[i].metric_name, l[i].period_end_date>>
                                 # <<l[j].metric_name, l[j].period_end_date>> } }

\* The section types the locator assigns: the keys of get_all_patterns.
SectionTypes ==
    {"income_statement", "cash_flow", "balance_sheet", "borrowings", "notes",
     "revenue", "ebitda"}

\* The evidence dict of a candidate read from a table cell, and of one
\* read from a text block: every field holds a value.
TableEvidence ==
    [f \in {"table_id", "row_index", "column_index", "raw_label", "raw_value",
            "period_label", "section_id"} |-> Some(f)]

TextEvidence ==
    [f \in {"text_block_id", "page", "raw_text", "raw_metric_name", "section_id"}
        |-> Some(f)]

\* The candidates _generate_from_tables and _generate_from_text create,
\* before scoring: a text candidate never has a period.
UnscoredCandidates ==
    { [source |-> "table_cell", section_type |-> t, period_end_date |-> p,
       evidence |-> TableEvidence, confidence_score |-> 0] :
         t \in SectionTypes, p \in {NoPeriod, FY2023} }
    \cup
    { [source |-> "text_block", section_type |-> t, period_end_date |-> NoPeriod,
       evidence |-> TextEvidence, confidence_score |-> 0] : t \in SectionTypes }

Min(a, b) == IF a <= b THEN a ELSE b

\* The score of _score_candidates in points of a hundredth.
ScoreOf(candidate) ==
    LET source_score == IF candidate.source = "table_cell" THEN 40
                        ELSE IF candidate.source = "text_block" THEN 20 ELSE 0
        section_score ==
            IF candidate.section_type \in
                  {"income_statement", "balance_sheet", "cash_flow_statement"}
            THEN 20
            ELSE IF candidate.section_type \in {"notes", "commentary"} THEN 10 ELSE 0
        period_score == IF candidate.period_end_date # NoPeriod THEN 20 ELSE 0
        evidence_fields ==
            Cardinality({ k \in DOMAIN candidate.evidence : candidate.evidence[k] # <<>> })
    IN source_score + section_score + period_score + Min(20, evidence_fields * 3)

\* candidates.sort(key=confidence_score, reverse=True): a stable sort.
SortedByScoreDescending(candidates) ==
    LET Before(i, j) ==
            \/ candidates[i].confidence_score > candidates[j].confidence_score
            \/ /\ candidates[i].confidence_score = candidates[j].confidence_score
               /\ i < j
        Rank(i) == Cardinality({ j \in 1..Len(candidates) : Before(j, i) }) + 1
    IN [k \in 1..Len(candidates) |->
           candidates[CHOOSE i \in 1..Len(candidates) : Rank(i) = k]]

_score_candidates(candidates) ==
    SortedByScoreDescending(
        [i \in 1..Len(candidates) |->
            [candidates[i] EXCEPT !.confidence_score = ScoreOf(candidates[i])]])

\* generate_candidates: the candidates of the tables and of the text,
\* each with its own id, scored and ranked.
generate_candidates(all_candidates) ==
    _score_candidates(
        [i \in 1..Len(all_candidates) |->
            [candidate_id |-> i,
             source |-> all_candidates[i].source,
             section_type |-> all_candidates[i].section_type,
             period_end_date |-> all_candidates[i].period_end_date,
             evidence |-> all_candidates[i].evidence,
             confidence_score |-> all_candidates[i].confidence_score]])

GenerateCandidatesCalls ==
    { [op |-> "generate_candidates", all_candidates |-> cs] :
         cs \in UNION { [1..n -> UnscoredCandidates] : n \in 0..MaxCands } }

\* What the PDF library does for one adapter: it raises, or yields text and
\* tables.  stream_raises: Camelot's second attempt, with the stream flavor,
\* raises as well.
BackendOutcomes(adapter) ==
    LET tables == { <<>>,
                    AdapterTables(adapter, <<[page_number |-> 1,
                                             data |-> TableData(2, 2, <<"R">>)]>>) }
        texts == IF adapter = "camelot" THEN { <<>> }
                 ELSE { TextBlocksOf(adapter, n) : n \in 0..MaxTextBlocks }
    IN { [raises |-> r, stream_raises |-> sr, text_blocks |-> t, table_blocks |-> tb] :
            r \in BOOLEAN, sr \in (IF adapter = "camelot" THEN BOOLEAN ELSE {FALSE}),
            t \in texts, tb \in tables }

\* parse_pdf of the three adapters.  PyMuPDFParser and PDFPlumberParser log
\* the exception and raise it again; CamelotParser._extract_tables catches
\* it, tries the stream flavor and returns the tables it has.
parse_pdf(adapter, backend) ==
    IF adapter = "camelot"
    THEN [raised |-> FALSE, text_blocks |-> <<>>,
          table_blocks |-> IF backend.raises /\ backend.stream_raises THEN <<>>
                           ELSE backend.table_blocks]
    ELSE IF backend.raises
         THEN [raised |-> TRUE, text_blocks |-> <<>>, table_blocks |-> <<>>]
         ELSE [raised |-> FALSE, text_blocks |-> backend.text_blocks,
               table_blocks |-> backend.table_blocks]

ParsePdfCalls ==
    UNION { { [op |-> "parse_pdf", adapter |-> a, backend |-> b] :
                 b \in BackendOutcomes(a) } : a \in Adapters }

NormalizePeriodLabelCalls ==
    { [op |-> "normalize_period_label", label |-> l] : l \in PeriodLabels }

\* Scale names: standard names, aliases, other spellings, and names the
\* converter does not know.
ScaleNames ==
    {"actual", "thousands", "millions", "billions", "m", "k", "Millions",
     " thousands ", "lakhs", "crores"}

CurrencyNames == {"GBP", "USD", "EUR", "JPY", "XYZ"}

Amounts == {0, 1, 2}

ConvertToScaleCalls ==
    { [op |-> "convert_to_scale", amount |-> a, from_scale |-> f, to_scale |-> t] :
         a \in Amounts, f \in ScaleNames, t \in ScaleNames }

NormalizeValueCalls ==
    { [op |-> "normalize_value", amount |-> a, currency |-> c, scale |-> sc] :
         a \in Amounts, c \in CurrencyNames,
         sc \in {"actual", "thousands", "millions", "billions", "lakhs", "crores"} }

----------------------------------------------------------------------------
(* The table path of the candidate generator                               *)
(* (services/candidate_generator.py) over the tables of the pdfplumber     *)
(* adapter (parsers/pdfplumber_parser.py).  Cells are sequences of         *)
(* characters; the cells of the model hold no pound or euro sign.          *)

\* [\d,]
IsNumChar(c) == IsDigit(c) \/ c = ","

\* A word character of \b.
IsWordChar(c) == IsAlpha(c) \/ IsDigit(c) \/ c = "_"

\* ([\d,]+(?:\.\d+)?) at position i, greedy: <<[num_str, next]>> or <<>>.
NumberAt(s, i) ==
    IF ~IsNumChar(At(s, i)) THEN <<>>
    ELSE LET e == CHOOSE j \in (i + 1)..(Len(s) + 1) :
                     /\ ~IsNumChar(At(s, j))
                     /\ \A k \in i..(j - 1) : IsNumChar(s[k])
             d == IF At(s, e) = "." /\ IsDigit(At(s, e + 1))
                  THEN CHOOSE j \in (e + 2)..(Len(s) + 1) :
                          /\ ~IsDigit(At(s, j))
                          /\ \A k \in (e + 1)..(j - 1) : IsDigit(s[k])
                  ELSE e
         IN <<[num_str |-> SubSeq(s, i, d - 1), next |-> d]>>

\* The text is at position i, in its own case.
TextAt(s, i, word) ==
    /\ i >= 1 /\ i + Len(word) - 1 <= Len(s)
    /\ SubSeq(s, i, i + Len(word) - 1) = word

\* VALUE_PATTERNS[0]: (?:GBP|USD|\$|EUR)\s*([\d,]+(?:\.\d+)?)
CurrencyValueAt(s, i) ==
    LET tokens == { <<"G", "B", "P">>, <<"U", "S", "D">>, <<"$">>, <<"E", "U", "R">> }
        hits == { t \in tokens : TextAt(s, i, t) }
    IN IF hits = {} THEN <<>>
       ELSE LET token == CHOOSE t \in hits : TRUE
                number == NumberAt(s, SkipSpaces(s, i + Len(token)))
            IN IF number = <<>> THEN <<>> ELSE <<number[1].num_str>>

\* VALUE_PATTERNS[1]: ([\d,]+(?:\.\d+)?)\s*(?:million|mn|m|billion|bn|b|thousand|k)
ScaledValueAt(s, i) ==
    LET number == NumberAt(s, i)
    IN IF number = <<>> THEN <<>>
       ELSE LET j == SkipSpaces(s, number[1].next)
            IN IF \/ At(s, j) \in {"m", "b", "k"}
                  \/ TextAt(s, j, <<"t", "h", "o", "u", "s", "a", "n", "d">>)
               THEN <<number[1].num_str>> ELSE <<>>

\* VALUE_PATTERNS[2]: \(\s*([\d,]+(?:\.\d+)?)\s*\)
ParenthesesValueAt(s, i) ==
    IF At(s, i) # "(" THEN <<>>
    ELSE LET number == NumberAt(s, SkipSpaces(s, i + 1))
         IN IF number = <<>> THEN <<>>
            ELSE IF At(s, SkipSpaces(s, number[1].next)) = ")"
                 THEN <<number[1].num_str>> ELSE <<>>

\* VALUE_PATTERNS[3]: ([\d,]+(?:\.\d+)?)
PlainValueAt(s, i) ==
    LET number == NumberAt(s, i)
    IN IF number = <<>> THEN <<>> ELSE <<number[1].num_str>>

\* num_str.replace(',', '')
RemoveCommas(text) == SelectSeq(text, LAMBDA c : c # ",")

\* re.search(pattern, value_str, re.IGNORECASE) of a word, and of a letter
\* followed by \b.
SearchWord(word, text) == Contains(word, Lower(text))
SearchLetterAtBoundary(letter, text) ==
    \E i \in 1..Len(text) :
       Lower(text)[i] = letter /\ ~IsWordChar(At(text, i + 1))

\* CURRENCY_PATTERNS in the order of the dict; GBP when none is found.
DetectCurrency(value_str) ==
    IF SearchWord(<<"g", "b", "p">>, value_str)
       \/ SearchWord(<<"p", "o", "u", "n", "d">>, value_str) THEN "GBP"
    ELSE IF SearchWord(<<"$">>, value_str) \/ SearchWord(<<"u", "s", "d">>, value_str)
            \/ SearchWord(<<"d", "o", "l", "l", "a", "r">>, value_str) THEN "USD"
    ELSE IF SearchWord(<<"e", "u", "r">>, value_str) THEN "EUR"
    ELSE "GBP"

\* SCALE_PATTERNS in the order of the dict; millions when none is found.
DetectScale(value_str) ==
    IF SearchWord(<<"m", "i", "l", "l", "i", "o", "n">>, value_str)
       \/ SearchWord(<<"m", "n">>, value_str)
       \/ SearchLetterAtBoundary("m", value_str) THEN "millions"
    ELSE IF SearchWord(<<"b", "i", "l", "l", "i", "o", "n">>, value_str)
            \/ SearchWord(<<"b", "n">>, value_str)
            \/ SearchLetterAtBoundary("b", value_str) THEN "billions"
    ELSE IF SearchWord(<<"t", "h", "o", "u", "s", "a", "n", "d">>, value_str)
            \/ SearchLetterAtBoundary("k", value_str) THEN "thousands"
    ELSE "millions"

\* _parse_numeric_value: <<>> for None, else the value (the digits without
\* commas, with the sign of the parenthesis convention), currency and scale.
\* Decimal(num_str) raises InvalidOperation when no digit is left.
_parse_numeric_value(value) ==
    Bind(Strip(value), LAMBDA value_str :
    Bind(<< Search(value_str, CurrencyValueAt),
            Search(value_str, ScaledValueAt),
            Search(value_str, ParenthesesValueAt),
            Search(value_str, PlainValueAt) >>, LAMBDA matches :
    Bind({ k \in 1..4 :
             /\ matches[k] # <<>>
             /\ \E c \in Range(RemoveCommas(matches[k][1])) : IsDigit(c) }, LAMBDA usable :
        IF value_str = <<>> \/ usable = {} THEN <<>>
        ELSE <<[value |-> [negative |-> "(" \in Range(value_str) /\ ")" \in Range(value_str),
                           num_str |-> RemoveCommas(
                               matches[CHOOSE k \in usable : \A j \in usable : k <= j][1])],
                currency |-> DetectCurrency(value_str),
                scale |-> DetectScale(value_str)]>>)))

\* _detect_period_columns: the columns (counted from 0) whose cell parses
\* as a period label, in column order; a parse that raises is not caught.
_detect_period_columns(header_row) ==
    Bind([i \in { c \in 1..Len(header_row) : header_row[c] # <<>> } |->
             parse_period_label(Strip(header_row[i]))], LAMBDA parsed :
    Bind({ i \in DOMAIN parsed : parsed[i].value # <<>> }, LAMBDA cols :
        [raised |-> \E i \in DOMAIN parsed : parsed[i].raised,
         period_columns |->
             [k \in 1..Cardinality(cols) |->
                 Bind(CHOOSE c \in cols : Cardinality({ j \in cols : j < c }) + 1 = k,
                      LAMBDA i :
                         [col_idx |-> i - 1,
                          label |-> Strip(header_row[i]),
                          end_date |-> parsed[i].value[1].end_date])]]))

\* The candidates of one data row (row_idx counted from 0).
RowCandidates(table, section, target_metrics, row_idx, period_columns) ==
    Bind(table.data[row_idx + 1], LAMBDA row :
    Bind(IF row = <<>> THEN <<>> ELSE Strip(row[1]), LAMBDA raw_label :
    IF row = <<>> \/ raw_label = <<>> THEN <<>>
    ELSE
    Bind(standardize_label(raw_label), LAMBDA standard_label :
    IF target_metrics # <<>> /\ standard_label \notin Range(target_metrics[1]) THEN <<>>
    ELSE
    Bind(SelectSeq([k \in 1..Len(period_columns) |->
                       [column |-> period_columns[k],
                        parsed_value |->
                            IF period_columns[k].col_idx < Len(row)
                            THEN _parse_numeric_value(row[period_columns[k].col_idx + 1])
                            ELSE <<>>]],
                   LAMBDA cell : cell.parsed_value # <<>>), LAMBDA cells :
        [k \in 1..Len(cells) |->
            [metric_name |-> standard_label,
             value |-> cells[k].parsed_value[1].value,
             currency |-> cells[k].parsed_value[1].currency,
             scale |-> cells[k].parsed_value[1].scale,
             period_end_date |-> cells[k].column.end_date,
             section_type |-> section.section_type,
             source |-> "table_cell",
             evidence |-> [table_id |-> table.table_id,
                           row_index |-> row_idx,
                           column_index |-> cells[k].column.col_idx,
                           raw_label |-> raw_label,
                           raw_value |-> row[cells[k].column.col_idx + 1],
                           period_label |-> cells[k].column.label,
                           section_id |-> section.section_id]]]))))

\* _extract_from_table: the header row is table.data[0]; the rows after it
\* are the data rows.
_extract_from_table(table, section, target_metrics) ==
    IF table.data = <<>> THEN [raised |-> FALSE, candidates |-> <<>>]
    ELSE Bind(_detect_period_columns(table.data[1]), LAMBDA detected :
         IF detected.raised THEN [raised |-> TRUE, candidates |-> <<>>]
         ELSE [raised |-> FALSE,
               candidates |->
                   Flatten([r \in 1..(Len(table.data) - 1) |->
                               RowCandidates(table, section, target_metrics, r,
                                             detected.period_columns)])])

_get_tables_in_section(section, table_blocks) ==
    SelectSeq(table_blocks, LAMBDA table :
        section.start_page <= table.page_number /\ table.page_number <= section.end_page)

\* _generate_from_tables: the candidates of the tables of each section.
_generate_from_tables(sections, table_blocks, target_metrics) ==
    Bind(Flatten([s \in 1..Len(sections) |->
                    Bind(_get_tables_in_section(sections[s], table_blocks),
                         LAMBDA section_tables :
                            [t \in 1..Len(section_tables) |->
                                _extract_from_table(section_tables[t], sections[s],
                                                    target_metrics)])]), LAMBDA results :
        IF \E k \in 1..Len(results) : results[k].raised
        THEN [raised |-> TRUE, candidates |-> <<>>]
        ELSE [raised |-> FALSE,
              candidates |-> Flatten([k \in 1..Len(results) |-> results[k].candidates])])

\* A cell with any(c.isdigit() for c in cell).
HasDigit(cell) == \E c \in Range(cell) : IsDigit(c)

\* PDFPlumberParser._process_table_data: <<>> for None, else the header
\* rows and the data rows; a second row that is mostly without digits is a
\* header row too.
_process_table_data(table_data) ==
    IF Len(table_data) < 2 THEN <<>>
    ELSE LET cleaned_table == [r \in 1..Len(table_data) |->
                                  [c \in 1..Len(table_data[r]) |-> Strip(table_data[r][c])]]
             second_row == cleaned_table[2]
             numeric_count == Cardinality({ c \in 1..Len(second_row) :
                                              second_row[c] # <<>> /\ HasDigit(second_row[c]) })
             data_start_idx == IF Len(cleaned_table) > 2 /\ 2 * numeric_count < Len(second_row)
                               THEN 2 ELSE 1
         IN <<[headers |-> SubSeq(cleaned_table, 1, data_start_idx),
               data |-> SubSeq(cleaned_table, data_start_idx + 1, Len(cleaned_table))]>>

\* PDFPlumberParser._extract_tables: one table block per table of the page
\* that has two rows or more.
_extract_tables(tables, page_num) ==
    Bind(SelectSeq([i \in 1..Len(tables) |->
                       [table_idx |-> i - 1, processed |-> _process_table_data(tables[i])]],
                   LAMBDA t : t.processed # <<>>), LAMBDA kept :
        [k \in 1..Len(kept) |->
            [table_id |-> <<"pdfplumber_table", page_num, kept[k].table_idx>>,
             page_number |-> page_num + 1,
             headers |-> kept[k].processed[1].headers,
             data |-> kept[k].processed[1].data]])

\* Most rows of a table of a page.
MaxRows == 3

\* The rows of the tables of a page: period headers, a title row, labelled
\* numeric rows, a row without a label, a row with a currency and scales
\* and a header with one period column.
RowPool ==
    { << <<>>, <<"F", "Y", "2", "0", "2", "3">>, <<"F", "Y", "2", "0", "2", "2">> >>,
      << <<"G", "r", "o", "u", "p">>, <<>>, <<>> >>,
      << <<"R", "e", "v", "e", "n", "u", "e">>, <<"1", ",", "0", "0", "0">>, <<"9", "0", "0">> >>,
      << <<"N", "e", "t", " ", "I", "n", "c", "o", "m", "e">>, <<"(", "9", "0", ")">>, <<"-">> >>,
      << <<>>, <<"1", "0", "0", "0">>, <<"9", "0", "0">> >>,
      << <<"G", "o", "o", "d", "w", "i", "l", "l">>, <<"$", "5", ".", "5", "b", "n">>,
         <<"2", " ", "m">> >>,
      << <<"M", "e", "t", "r", "i", "c">>, <<"N", "o", "t", "e", "s">>,
         <<"F", "Y", "2", "0", "2", "2">> >> }

\* The income statement of pages 1 to 2.
IncomeStatementSection ==
    [section_id |-> "s1", section_type |-> "income_statement", start_page |-> 1, end_page |-> 2]

\* The table of a page as pdfplumber extracts it, the page (counted from
\* 0) and the target metrics (<<>> for None).
GenerateFromTablesCalls ==
    { [op |-> "_generate_from_tables", table_data |-> rows, page_num |-> p,
       target_metrics |-> tm] :
         rows \in UNION { [1..n -> RowPool] : n \in 1..MaxRows },
         p \in {0, 2},
         tm \in { <<>>, << << <<"r", "e", "v", "e", "n", "u", "e">> >> >> } }

Calls ==
    LocateSectionsCalls \cup StandardizeLabelCalls \cup ValidateCandidatesCalls
    \cup ComputeAllMetricsCalls \cup GenerateCandidatesCalls
    \cup ParsePdfCalls
    \cup NormalizePeriodLabelCalls
    \cup ConvertToScaleCalls \cup NormalizeValueCalls
    \cup GenerateFromTablesCalls

InitCalls ==
    /\ pc = "idle"
    /\ state = InitialState(Some("report.pdf"))
    /\ executed = <<>>
    /\ llm_log = <<>>
    /\ camelot_tables = <<>>
    /\ pdfplumber_tables = <<>>
    /\ merged_tables = <<>>
    /\ merge_pc = "idle"
    /\ parser_priority = <<>>
    /\ parsers = <<>>
    /\ adapter_runs = <<>>
    /\ invoked = <<>>
    /\ parse_return = <<>>
    /\ parse_pc = "idle"
    /\ call \in Calls
    /\ ret = <<>>

call_locate_sections ==
    /\ call.op = "locate_sections"
    /\ ret = <<>>
    /\ ret' = Some(locate_sections(call.text_blocks))
    /\ UNCHANGED <<call, pipeline_vars, merge_vars, parse_vars>>

call_standardize_label ==
    /\ call.op = "standardize_label"
    /\ ret = <<>>
    /\ ret' = Some(standardize_label(call.label))
    /\ UNCHANGED <<call, pipeline_vars, merge_vars, parse_vars>>

\* The validator is given the candidates and raises, or returns the results;
\* the aggregator then reports the candidates needing adjudication, from
\* which the route follows.
call_validate_candidates ==
    /\ call.op = "validate_candidates"
    /\ ret = <<>>
    /\ IF ValidateRaises(call.candidates)
       THEN ret' = Some([raised |-> TRUE, validation_results |-> <<>>,
                         has_conflicts |-> FALSE, route |-> "none"])
       ELSE \E validation_results \in { validate_candidates(call.candidates) } :
            \E needs_adjudication \in
                  { get_candidates_needing_adjudication(validation_results) } :
               ret' = Some([raised |-> FALSE,
                            validation_results |-> validation_results,
                            has_conflicts |-> Len(needs_adjudication) > 0,
                            route |-> should_adjudicate(
                                [has_conflicts |-> Some(Len(needs_adjudication) > 0)])])
    /\ UNCHANGED <<call, pipeline_vars, merge_vars, parse_vars>>

call_compute_all_metrics ==
    /\ call.op = "compute_all_metrics"
    /\ ret = <<>>
    /\ \E order \in IterationOrders(AllPeriods(call.validated_metrics)) :
          ret' = Some(compute_all_metrics(call.validated_metrics, order))
    /\ UNCHANGED <<call, pipeline_vars, merge_vars, parse_vars>>

call_generate_candidates ==
    /\ call.op = "generate_candidates"
    /\ ret = <<>>
    /\ ret' = Some(generate_candidates(call.all_candidates))
    /\ UNCHANGED <<call, pipeline_vars, merge_vars, parse_vars>>

call_parse_pdf ==
    /\ call.op = "parse_pdf"
    /\ ret = <<>>
    /\ ret' = Some(parse_pdf(call.adapter, call.backend))
    /\ UNCHANGED <<call, pipeline_vars, merge_vars, parse_vars>>

call_normalize_period_label ==
    /\ call.op = "normalize_period_label"
    /\ ret = <<>>
    /\ ret' = Some(normalize_period_label(call.label))
    /\ UNCHANGED <<call, pipeline_vars, merge_vars, parse_vars>>

call_convert_to_scale ==
    /\ call.op = "convert_to_scale"
    /\ ret = <<>>
    /\ ret' = Some(convert_to_scale(call.amount, call.from_scale, call.to_scale))
    /\ UNCHANGED <<call, pipeline_vars, merge_vars, parse_vars>>

call_normalize_value ==
    /\ call.op = "normalize_value"
    /\ ret = <<>>
    /\ ret' = Some(normalize_value(call.amount, call.currency, call.scale))
    /\ UNCHANGED <<call, pipeline_vars, merge_vars, parse_vars>>

call_generate_from_tables ==
    /\ call.op = "_generate_from_tables"
    /\ ret = <<>>
    /\ \E table_blocks \in { _extract_tables(<<call.table_data>>, call.page_num) } :
          \E generated \in { _generate_from_tables(<<IncomeStatementSection>>, table_blocks,
                                                   call.target_metrics) } :
             ret' = Some([table_blocks |-> table_blocks,
                          raised |-> generated.raised,
                          candidates |-> generated.candidates])
    /\ UNCHANGED <<call, pipeline_vars, merge_vars, parse_vars>>

NextCalls ==
    \/ call_locate_sections
    \/ call_generate_candidates
    \/ call_compute_all_metrics
    \/ call_validate_candidates
    \/ call_standardize_label
    \/ call_parse_pdf
    \/ call_normalize_period_label
    \/ call_convert_to_scale
    \/ call_normalize_value
    \/ call_generate_from_tables

SpecCalls == InitCalls /\ [][NextCalls]_vars

----------------------------------------------------------------------------
(* Properties of the workflow.                                             *)

LastExecuted == IF executed = <<>> THEN "none" ELSE executed[Len(executed)]

HasRun(node) == node \in Range(executed)

\* The node raised: the errors list has a record naming it.
NodeFailed(node) == \E i \in 1..Len(state.errors) : state.errors[i].node = node

\* Some validation result asks for review or rejects its candidate.
Conflicting(results) ==
    \E i \in 1..Len(results) : results[i].status \in {"needs_review", "invalid"}

IsPrefix(a, b) == Len(a) <= Len(b) /\ SubSeq(b, 1, Len(a)) = a

\* The two ways through the graph.
PathBeforeBranch ==
    <<"ingest_pdf", "parse_blockify", "locate_sections", "extract_tables",
      "normalize_metrics", "generate_candidates", "validate_deterministic">>

PathAfterBranch ==
    <<"compute_derived", "generate_commentary", "summarize_news", "export_results">>

SkipPath == PathBeforeBranch \o PathAfterBranch

AdjudicatePath == PathBeforeBranch \o <<"adjudicate_llm">> \o PathAfterBranch

\* C1: adjudicate_llm runs, right after validate_deterministic, exactly when
\* some candidate's validation status is needs_review or invalid; otherwise
\* the run goes from validate_deterministic straight to compute_derived.
C1_AdjudicateIffConflicts ==
    LET conflicts == Conflicting(Get(state.validation_results, <<>>))
    IN /\ LastExecuted = "validate_deterministic" =>
             /\ conflicts => pc = "adjudicate_llm"
             /\ ~conflicts => pc = "compute_derived"
       /\ pc = "adjudicate_llm" => LastExecuted = "validate_deterministic"
       /\ \A i \in 1..Len(executed) :
             executed[i] = "adjudicate_llm" =>
                i > 1 /\ executed[i - 1] = "validate_deterministic" /\ conflicts

\* Validation found a conflict and the graph is about to adjudicate.
C1_Witness ==
    /\ LastExecuted = "validate_deterministic"
    /\ pc = "adjudicate_llm"
    /\ Conflicting(Get(state.validation_results, <<>>))

\* The nodes run so far are the start of one way through the graph and pc is
\* the next node on it, END after export_results.
C2_GraphOrder ==
    \E path \in {SkipPath, AdjudicatePath} :
       /\ IsPrefix(executed, path)
       /\ pc = IF Len(executed) < Len(path) THEN path[Len(executed) + 1] ELSE "END"

\* C2: whatever the input and whichever stages fail, a run started at
\* ingest_pdf reaches the terminal state after export_results, and every
\* stage on the path taken runs exactly once, in graph order.
C2_RunCompletes == <>(pc = "END") /\ []C2_GraphOrder

\* A run in which three stages raised has reached the terminal state.
C2_Witness ==
    /\ pc = "END"
    /\ LastExecuted = "export_results"
    /\ Len(state.errors) >= 3

\* The empty value of the output slots of a node.
EmptyOutput(node, s) ==
    CASE node = "ingest_pdf" -> s.document_metadata = Absent
      [] node = "parse_blockify" ->
            s.text_blocks = Some(<<>>) /\ s.table_blocks = Some(<<>>)
      [] node = "locate_sections" -> s.sections = Some(<<>>)
      [] node = "extract_tables" -> s.extracted_tables = Some(<<>>)
      [] node = "normalize_metrics" -> s.normalized_metrics = Some(<<>>)
      [] node = "generate_candidates" -> s.candidates = Some(<<>>)
      [] node = "validate_deterministic" ->
            s.validation_results = Some(<<>>) /\ s.has_conflicts = Some(FALSE)
      [] node = "adjudicate_llm" -> s.validated_metrics = Some(<<>>)
      [] node = "compute_derived" -> s.derived_metrics = Some(<<>>)
      [] node = "generate_commentary" -> s.commentary = Some({})
      [] node = "summarize_news" -> s.recent_developments = Some("")
      [] node = "export_results" -> s.export_paths = Some({})

\* C3: a stage that raised has exactly one record in errors and its own
\* output slots hold their empty values.
C3_FailedStageHasEmptyOutput ==
    \A i \in 1..Len(state.errors) :
       LET node == state.errors[i].node
       IN /\ Cardinality({j \in 1..Len(state.errors) : state.errors[j].node = node}) = 1
          /\ EmptyOutput(node, state)

\* C4: when ingestion fails on an invalid input the run stops there: no
\* later stage runs.
C4_InvalidInputAborts ==
    (state.raw_pdf_path = Absent /\ NodeFailed("ingest_pdf")) =>
        executed = <<"ingest_pdf">>

\* C5: the normalizer runs after candidate generation and before validation,
\* and leaves one normalized metric per generated candidate.
C5_NormalizerAfterCandidates ==
    /\ \A j \in 1..Len(executed) :
          executed[j] = "normalize_metrics" =>
             \E i \in 1..j - 1 : executed[i] = "generate_candidates"
    /\ \A j \in 1..Len(executed) :
          executed[j] = "validate_deterministic" =>
             \E i \in 1..j - 1 : executed[i] = "normalize_metrics"
    /\ (HasRun("normalize_metrics") /\ HasRun("generate_candidates")
        /\ ~NodeFailed("normalize_metrics")) =>
          Len(Get(state.normalized_metrics, <<>>)) = Len(Get(state.candidates, <<>>))

\* The metric is a candidate of the group that no other candidate of the
\* group beats on confidence, with that candidate's value.
IsHighestConfidence(metric, members) ==
    \E i \in 1..Len(members) :
       /\ members[i].candidate_id = metric.metric_id
       /\ members[i].value = metric.value
       /\ \A j \in 1..Len(members) :
             members[j].confidence_score <= members[i].confidence_score

----------------------------------------------------------------------------
(* Properties of the validator and of the adjudicator.                     *)

\* The rules, of the four the validator applies, that the candidate breaks.
ViolatedRules(candidate, all_candidates) ==
    { rule \in {"unit", "range", "yoy", "arithmetic"} :
        CASE rule = "unit" -> ~_check_unit_consistency(candidate).valid
          [] rule = "range" -> ~_check_range_bounds(candidate, all_candidates).valid
          [] rule = "yoy" ->
                \E check \in Range(_check_yoy_delta(candidate, all_candidates)) :
                   ~check.valid
          [] rule = "arithmetic" ->
                \E check \in Range(_check_arithmetic(candidate, all_candidates)) :
                   ~check.valid }

\* C7: the status of a validated candidate depends only on how many of the
\* four rules it breaks: none valid, one needs_review, two or more invalid;
\* so an unknown currency alone gives needs_review, and with any other
\* violation invalid.
C7_StatusFromViolationCount ==
    LET candidates == Get(state.candidates, <<>>)
        results == Get(state.validation_results, <<>>)
    IN \A i \in 1..Len(results) :
          \E candidate \in Range(candidates) :
             /\ candidate.candidate_id = results[i].candidate_id
             /\ LET violated == ViolatedRules(candidate, candidates)
                    unknown_currency == candidate.currency \notin {"GBP", "USD", "EUR"}
                IN /\ Cardinality(violated) = 0 => results[i].status = "valid"
                   /\ Cardinality(violated) = 1 => results[i].status = "needs_review"
                   /\ Cardinality(violated) >= 2 => results[i].status = "invalid"
                   /\ unknown_currency /\ violated = {"unit"} =>
                         results[i].status = "needs_review"
                   /\ unknown_currency /\ violated # {"unit"} =>
                         results[i].status = "invalid"

\* One validation holds a valid candidate and a candidate in an unknown
\* currency that breaks a second rule.
C7_Witness ==
    LET candidates == Get(state.candidates, <<>>)
        results == Get(state.validation_results, <<>>)
    IN /\ \E i \in 1..Len(results) : results[i].status = "valid"
       /\ \E i \in 1..Len(results) :
             /\ results[i].status = "invalid"
             /\ \E candidate \in Range(candidates) :
                   /\ candidate.candidate_id = results[i].candidate_id
                   /\ candidate.currency = "XYZ"

\* Every validation result of the group's candidates is valid.
AllValid(members, results) ==
    \A i \in 1..Len(results) :
       (\E c \in Range(members) : c.candidate_id = results[i].candidate_id)
          => results[i].status = "valid"

LLMFailed(entry, members) ==
    \/ ~entry.client
    \/ entry.response.raises
    \/ ~entry.response.is_json
    \/ ~({"selected_candidate_id", "confidence", "reasoning"} \subseteq entry.response.fields)
    \/ \A c \in Range(members) : c.candidate_id # entry.response.selected_candidate_id

----------------------------------------------------------------------------
(* Properties of the table merge.                                          *)

Rows(table) == Len(table.data)

Cols(table) == IF table.data # <<>> THEN Len(table.data[1]) ELSE 0

\* The first cell of the first data row, stripped; <<>> when there is none.
FirstCell(table) ==
    IF table.data # <<>> /\ table.data[1] # <<>>
    THEN <<Strip(table.data[1][1])>> ELSE <<>>

\* C10: after a merge, any two distinct tables of the output on the same
\* page differ by more than 2 rows, or by more than 1 column, or in the
\* first cell of their first data row.
C10_MergedTablesDistinct ==
    merge_pc = "merged" =>
        \A i, j \in 1..Len(merged_tables) :
           (i # j /\ merged_tables[i].page_number = merged_tables[j].page_number) =>
              \/ Abs(Rows(merged_tables[i]) - Rows(merged_tables[j])) > 2
              \/ Abs(Cols(merged_tables[i]) - Cols(merged_tables[j])) > 1
              \/ FirstCell(merged_tables[i]) # FirstCell(merged_tables[j])

\* A Camelot table and a pdfplumber table that are on the same page, have
\* the same row and column counts and the same non-empty first cell in the
\* first data row.
SameTableTwice(c, p) ==
    /\ c.page_number = p.page_number
    /\ Rows(c) = Rows(p) /\ Cols(c) = Cols(p)
    /\ c.data # <<>> /\ c.data[1] # <<>> /\ p.data # <<>> /\ p.data[1] # <<>>
    /\ c.data[1][1] # <<>> /\ c.data[1][1] = p.data[1][1]

\* C11: when the table-specialist adapter (Camelot) and pdfplumber each
\* return a table on the same page with equal dimensions and an identical
\* non-empty first cell in the first data row, the merged output holds the
\* Camelot table and does not hold the pdfplumber table.
C11_SpecialistTableSurvives ==
    merge_pc = "merged" =>
        \A i \in 1..Len(camelot_tables), j \in 1..Len(pdfplumber_tables) :
           SameTableTwice(camelot_tables[i], pdfplumber_tables[j]) =>
              /\ camelot_tables[i] \in Range(merged_tables)
              /\ pdfplumber_tables[j] \notin Range(merged_tables)

\* Camelot returned two tables on a page and pdfplumber returned a copy of
\* the second one; the merge has run.
C11_Witness ==
    /\ merge_pc = "merged"
    /\ Len(camelot_tables) = 2 /\ Len(pdfplumber_tables) = 1
    /\ camelot_tables[1].page_number = camelot_tables[2].page_number
    /\ ~ _tables_similar(camelot_tables[1], camelot_tables[2])
    /\ SameTableTwice(camelot_tables[2], pdfplumber_tables[1])
    /\ Len(merged_tables) = 2

\* The text of the first text-producing adapter, in parser_priority order,
\* that was constructed and whose parse_pdf succeeded; <<>> without one.
FirstSuccessfulText ==
    LET ok == { k \in 1..Len(parser_priority) :
                   /\ parser_priority[k] \in {"pymupdf", "pdfplumber"}
                   /\ parser_priority[k] \in Range(parsers)
                   /\ adapter_runs[parser_priority[k]].success }
    IN IF ok = {} THEN <<>>
       ELSE adapter_runs[parser_priority[CHOOSE k \in ok : \A j \in ok : k <= j]].text_blocks

\* C12: the text blocks returned by parse are exactly the text blocks of
\* the first adapter, in the configured parser_priority order, whose run
\* succeeded, and are empty when no text-producing adapter succeeded.
C12_TextFromFirstSuccessfulAdapter ==
    (parse_pc = "returned" /\ parse_return[1].op = "parse") =>
        parse_return[1].text_blocks = FirstSuccessfulText

\* The adapters parse_with_fallback can call: those of parser_priority
\* that were constructed, in the configured order.
ConfiguredAdapters == SelectSeq(parser_priority, LAMBDA name : name \in Range(parsers))

\* C20: parse_with_fallback calls the configured adapters in
\* parser_priority order up to and including the first one that succeeds
\* and no adapter after it, returns exactly that adapter's (text, tables)
\* pair, and raises if and only if every configured adapter failed.
C20_FallbackReturnsFirstSuccess ==
    (parse_pc = "returned" /\ parse_return[1].op = "parse_with_fallback") =>
        LET r == parse_return[1]
            ok == { k \in 1..Len(ConfiguredAdapters) :
                       adapter_runs[ConfiguredAdapters[k]].success }
            first == CHOOSE k \in ok : \A j \in ok : k <= j
        IN /\ r.raised <=> ok = {}
           /\ ok = {} => invoked = ConfiguredAdapters
           /\ ok # {} =>
                 /\ invoked = SubSeq(ConfiguredAdapters, 1, first)
                 /\ r.text_blocks = adapter_runs[ConfiguredAdapters[first]].text_blocks
                 /\ r.table_blocks = adapter_runs[ConfiguredAdapters[first]].table_blocks

\* The first adapter raised, the second one succeeded with text and a
\* table, and a third configured adapter was never called.
C20_Witness ==
    /\ parse_pc = "returned" /\ parse_return[1].op = "parse_with_fallback"
    /\ Len(ConfiguredAdapters) = 3
    /\ Len(invoked) = 2
    /\ ~ adapter_runs[invoked[1]].success
    /\ ~ parse_return[1].raised
    /\ parse_return[1].text_blocks # <<>>
    /\ parse_return[1].table_blocks # <<>>

\* C13: the sections returned by locate_sections are sorted by start_page,
\* and any two returned sections of the same section_type have disjoint
\* page ranges.
C13_SectionsSortedAndDisjoint ==
    (call.op = "locate_sections" /\ ret # <<>>) =>
        LET sections == ret[1]
        IN /\ \A i \in 1..Len(sections) :
                 i > 1 => sections[i - 1].start_page <= sections[i].start_page
           /\ \A i, j \in 1..Len(sections) :
                 (i # j /\ sections[i].section_type = sections[j].section_type) =>
                    \/ sections[i].end_page < sections[j].start_page
                    \/ sections[j].end_page < sections[i].start_page

\* C14: standardizing a label a second time changes nothing, and a
\* canonical label of the table standardizes to itself.
C14_StandardizeLabelIdempotent ==
    (call.op = "standardize_label" /\ ret # <<>>) =>
        /\ standardize_label(ret[1]) = ret[1]
        /\ (\E k \in 1..Len(STANDARD_LABELS) : STANDARD_LABELS[k].label = call.label)
              => ret[1] = call.label

\* The candidates of the list that are the component `name` of a
\* candidate for its period.
ComponentsFor(candidate, name, candidates) ==
    SelectSeq(candidates, LAMBDA c : /\ c.metric_name = name
                                     /\ c.period_end_date = candidate.period_end_date)

\* What the identity of the candidate's label gives from the first
\* component candidates of its period.
ExpectedByIdentity(candidate, candidates) ==
    LET first == ComponentsFor(candidate, ARITHMETIC_RULES[candidate.metric_name][1],
                               candidates)[1].value
        second == ComponentsFor(candidate, ARITHMETIC_RULES[candidate.metric_name][2],
                                candidates)[1].value
    IN IF candidate.metric_name \in {"total_assets", "total_liabilities"}
       THEN first + second ELSE first - second

\* C15: for a candidate whose label has an identity and whose components
\* are all present for its period, the arithmetic rule reports a violation
\* if and only if |observed - expected| > 0.05 * |expected|; with a
\* component missing it reports none.  With components 300 and 700 a
\* total of 1000 is valid, and a total of 1060 has exactly the arithmetic
\* violation, is needs_review and routes to adjudication.
C15_ArithmeticViolationIffOutOfTolerance ==
    (call.op = "validate_candidates" /\ ret # <<>>) =>
        \A i \in 1..Len(ret[1].validation_results) :
           LET result == ret[1].validation_results[i]
               candidate == CHOOSE c \in Range(call.candidates) :
                               c.candidate_id = result.candidate_id
               reported == "arithmetic" \in Range(result.issues)
               has_identity == candidate.metric_name \in DOMAIN ARITHMETIC_RULES
               complete ==
                   \A k \in 1..Len(ARITHMETIC_RULES[candidate.metric_name]) :
                      ComponentsFor(candidate, ARITHMETIC_RULES[candidate.metric_name][k],
                                    call.candidates) # <<>>
               expected == ExpectedByIdentity(candidate, call.candidates)
           IN /\ ~has_identity => ~reported
              /\ (has_identity /\ ~complete) => ~reported
              /\ (has_identity /\ complete) =>
                    /\ reported <=>
                          Abs(candidate.value - expected) * 100 > 5 * Abs(expected)
                    /\ (candidate.value = 1000 /\ expected = 1000) =>
                          result.status = "valid"
                    /\ (candidate.value = 1060 /\ expected = 1000) =>
                          /\ result.issues = <<"arithmetic">>
                          /\ result.status = "needs_review"
                          /\ ret[1].route = "adjudicate"

\* A date is before another one.
DateBefore(a, b) ==
    \/ a[1] < b[1]
    \/ a[1] = b[1] /\ a[2] < b[2]
    \/ a[1] = b[1] /\ a[2] = b[2] /\ a[3] < b[3]

\* The pairs (prior, current) of metrics of the label whose periods are
\* adjacent among the periods the set holds for the label.
AdjacentPairs(metrics, label) ==
    LET of_label == { m \in Range(metrics) : LowerUnderscore(m.metric_name) = label }
    IN { pair \in of_label \X of_label :
            /\ DateBefore(pair[1].period_end_date, pair[2].period_end_date)
            /\ ~\E m \in of_label :
                   /\ DateBefore(pair[1].period_end_date, m.period_end_date)
                   /\ DateBefore(m.period_end_date, pair[2].period_end_date) }

\* C16: for each growth label and each pair of adjacent periods for which
\* the adjudicated set holds the label, compute_all_metrics emits exactly
\* one growth metric "<Name> Growth YoY" dated at the later period, with
\* value (v_t - v_prev) / |v_prev|, scale actual and extraction_method
\* calculated, and none when v_prev = 0; it emits no other growth metric.
\* Revenue 1100 at 2023-12-31 after 1000 at 2022-12-31 gives 0.10.
C16_GrowthPerAdjacentPeriods ==
    (call.op = "compute_all_metrics" /\ ret # <<>>) =>
        LET derived == ret[1]
            Growth(t) == { i \in 1..Len(derived) : derived[i].metric_name = growth_targets[t][3] }
        IN \A t \in 1..Len(growth_targets) :
              LET pairs == AdjacentPairs(call.validated_metrics, growth_targets[t][1])
              IN /\ \A pair \in pairs :
                       LET at == { i \in Growth(t) :
                                      derived[i].period_end_date = pair[2].period_end_date }
                       IN IF pair[1].value = 0 THEN at = {}
                          ELSE /\ Cardinality(at) = 1
                               /\ \A i \in at :
                                     /\ derived[i].value =
                                           <<pair[2].value - pair[1].value,
                                             Abs(pair[1].value)>>
                                     /\ derived[i].scale = "actual"
                                     /\ derived[i].extraction_method = "calculated"
                                     /\ (pair[2].value = 1100 /\ pair[1].value = 1000) =>
                                           derived[i].value[1] * 10 = derived[i].value[2]
                 /\ Cardinality(Growth(t)) =
                       Cardinality({ pair \in pairs : pair[1].value # 0 })

\* C17: every candidate returned by generate_candidates has a confidence
\* that is the sum of 0.40 for a table cell or 0.20 for a text block, 0.20
\* for a section of type income_statement, balance_sheet or cash_flow or
\* 0.10 for notes or commentary, 0.20 for a known period, and
\* min(0.20, 0.03 x number of non-null evidence fields); it lies in [0, 1].
\* Confidences are in hundredths.
C17_ConfidenceIsSumOfFactors ==
    (call.op = "generate_candidates" /\ ret # <<>>) =>
        \A i \in 1..Len(ret[1]) :
           LET candidate == ret[1][i]
               source == IF candidate.source = "table_cell" THEN 40 ELSE 20
               period == IF candidate.period_end_date # NoPeriod THEN 20 ELSE 0
               fields == Cardinality({ k \in DOMAIN candidate.evidence :
                                          candidate.evidence[k] # <<>> })
               evidence == IF 3 * fields < 20 THEN 3 * fields ELSE 20
           IN /\ candidate.confidence_score >= 0 /\ candidate.confidence_score <= 100
              /\ candidate.section_type \in {"income_statement", "balance_sheet", "cash_flow"}
                    => candidate.confidence_score = source + 20 + period + evidence
              /\ candidate.section_type \in {"notes", "commentary"}
                    => candidate.confidence_score = source + 10 + period + evidence

\* The slots of AgentState a node stores its own output into.
OwnSlots(node) ==
    CASE node = "ingest_pdf" -> {"document_metadata"}
      [] node = "parse_blockify" -> {"text_blocks", "table_blocks"}
      [] node = "locate_sections" -> {"sections"}
      [] node = "extract_tables" -> {"extracted_tables"}
      [] node = "normalize_metrics" -> {"normalized_metrics"}
      [] node = "generate_candidates" -> {"candidates"}
      [] node = "validate_deterministic" -> {"validation_results", "has_conflicts"}
      [] node = "adjudicate_llm" -> {"validated_metrics"}
      [] node = "compute_derived" -> {"derived_metrics"}
      [] node = "generate_commentary" -> {"commentary"}
      [] node = "summarize_news" -> {"recent_developments"}
      [] node = "export_results" -> {"export_paths"}

SharedSlots == {"errors", "node_execution_times"}

\* C18: a stage changes only its own output slots and the shared errors and
\* node_execution_times slots; raw_pdf_path and the outputs of all the other
\* stages keep their values across the stage, whether it succeeds or fails.
C18_StageChangesOnlyOwnSlots ==
    [][executed' # executed =>
         LET node == executed'[Len(executed')]
         IN \A slot \in (DOMAIN state) \ (OwnSlots(node) \cup SharedSlots) :
               state'[slot] = state[slot]]_vars

\* A stage has failed and a later one has succeeded while candidates found
\* before both are still in their slot.
C18_Witness ==
    /\ HasRun("compute_derived")
    /\ NodeFailed("validate_deterministic")
    /\ "compute_derived" \in state.node_execution_times
    /\ state.candidates # Absent /\ Get(state.candidates, <<>>) # <<>>
    /\ state.raw_pdf_path # Absent

\* The LLM was asked about the group and answered with complete JSON.
LLMAnswered(entry) ==
    /\ entry.called
    /\ ~entry.response.raises
    /\ entry.response.is_json
    /\ {"selected_candidate_id", "confidence", "reasoning"} \subseteq entry.response.fields

\* The candidates of the group that carry the id the LLM selected.
SelectedBy(entry, members) ==
    {c \in Range(members) : c.candidate_id = entry.response.selected_candidate_id}

SucceededAdapters == { name \in Range(parsers) : adapter_runs[name].success }

\* C21: parse does not raise when adapters fail: every adapter of the
\* service is called, the result is the merge of the outputs of the adapters
\* that succeeded, and it is empty text and no tables when all of them fail.
C21_ParseSkipsFailedAdapters ==
    (parse_pc = "returned" /\ parse_return[1].op = "parse") =>
        LET r == parse_return[1]
            merged == _merge_parser_results(
                          [name \in SucceededAdapters |-> adapter_runs[name]])
        IN /\ ~r.raised
           /\ invoked = parsers
           /\ r.text_blocks = merged.text_blocks
           /\ r.table_blocks = merged.table_blocks
           /\ SucceededAdapters = {} =>
                 r.text_blocks = <<>> /\ r.table_blocks = <<>>

\* The first adapter of the service raised, a later one returned text, and
\* parse returned that text.
C21_Witness ==
    /\ parse_pc = "returned" /\ parse_return[1].op = "parse"
    /\ Len(parsers) >= 2
    /\ ~adapter_runs[parsers[1]].success
    /\ SucceededAdapters # {}
    /\ parse_return[1].text_blocks # <<>>

\* C22: when its PDF backend raises, the parse call of each of the three
\* adapters returns empty text and no tables and does not raise.
C22_AdapterReturnsEmptyOnBackendFailure ==
    (call.op = "parse_pdf" /\ ret # <<>>
     /\ call.backend.raises /\ (call.adapter = "camelot" => call.backend.stream_raises)) =>
        /\ ~ret[1].raised
        /\ ret[1].text_blocks = <<>>
        /\ ret[1].table_blocks = <<>>

\* The blocks of the stream that open a section, in stream order.
HeaderBlocks(text_blocks) ==
    SelectSeq(text_blocks, LAMBDA b : is_section_header(b.text)
                                      /\ match_section_type(b.text) # <<>>)

IsNormalizedForm(text) ==
    \/ /\ Len(text) = 6 /\ SubSeq(text, 1, 2) = <<"F", "Y">> /\ DigitsAt(text, 3, 4)
    \/ /\ Len(text) = 7 /\ text[1] \in {"Q", "H"} /\ IsDigit(text[2])
       /\ text[3] = "-" /\ DigitsAt(text, 4, 4)

\* C24: for a label that parse_period_label accepts, normalize_period_label
\* gives a text of the form FY{YYYY}, Q{n}-{YYYY} or H{n}-{YYYY}, and parsing
\* that text succeeds with the same period_type, fiscal_year, quarter and half.
C24_NormalizedLabelRoundTrips ==
    (/\ call.op = "normalize_period_label" /\ ret # <<>>
     /\ ~parse_period_label(call.label).raised
     /\ parse_period_label(call.label).value # <<>>) =>
        LET parsed == parse_period_label(call.label).value[1]
            again == parse_period_label(ret[1].text)
        IN /\ ~ret[1].raised
           /\ IsNormalizedForm(ret[1].text)
           /\ ~again.raised /\ again.value # <<>>
           /\ again.value[1].period_type = parsed.period_type
           /\ again.value[1].fiscal_year = parsed.fiscal_year
           /\ again.value[1].quarter = parsed.quarter
           /\ again.value[1].half = parsed.half

\* The converter has neither the scale as a standard name nor as an alias.
UnknownScale(scale) ==
    ScaleLowerStrip(scale) \notin
        {"actual", "thousands", "millions", "billions", "k", "m", "b", "thousand",
         "million", "billion", "000s", "000,000s"}

\* C25: with a scale or a currency the converters do not know, the
\* conversion returns the amount it was given: convert_to_scale with an
\* unknown from-scale or to-scale, and normalize_value with a currency
\* without exchange rate (the scale being the base scale, so that nothing
\* else is converted) or with an unknown scale.
C25_UnknownUnitReturnsAmount ==
    /\ (call.op = "convert_to_scale" /\ ret # <<>>
        /\ (UnknownScale(call.from_scale) \/ UnknownScale(call.to_scale))) =>
          ret[1][1] = call.amount * ret[1][2]
    /\ (call.op = "normalize_value" /\ ret # <<>>
        /\ \/ call.currency \notin {"GBP", "USD", "EUR"} /\ call.scale = "millions"
           \/ UnknownScale(call.scale)) =>
          ret[1].normalized_value[1] = call.amount * ret[1].normalized_value[2]

\* C26: within each derived-metric label, compute_all_metrics emits the
\* metrics in ascending order of period, in every run.
C26_DerivedAscendingWithinLabel ==
    (call.op = "compute_all_metrics" /\ ret # <<>>) =>
        \A i, j \in 1..Len(ret[1]) :
            (i < j /\ ret[1][i].metric_name = ret[1][j].metric_name) =>
                DateBefore(ret[1][i].period_end_date, ret[1][j].period_end_date)

\* C27: for every list of candidates, among them the empty list, candidates
\* without a period and candidates whose period ends on 29 February,
\* validate_candidates returns without raising one ValidationResult per
\* candidate, carrying the candidate's id.
C27_OneResultPerCandidate ==
    (call.op = "validate_candidates" /\ ret # <<>>) =>
        /\ ~ret[1].raised
        /\ Len(ret[1].validation_results) = Len(call.candidates)
        /\ \A i \in 1..Len(call.candidates) :
              Cardinality({ k \in 1..Len(ret[1].validation_results) :
                              ret[1].validation_results[k].candidate_id
                                  = call.candidates[i].candidate_id }) = 1

\* The revenue _check_range_bounds divides by, and the components
\* _check_arithmetic sums, for one candidate of a list.
RangeReference(candidate, all_candidates) ==
    IF candidate.metric_name \in DOMAIN METRIC_BOUNDS
    THEN _find_metric(all_candidates, "revenue", candidate.period_end_date)
    ELSE <<>>

ArithmeticReferences(candidate, all_candidates) ==
    IF candidate.metric_name \notin DOMAIN ARITHMETIC_RULES THEN {}
    ELSE { _find_metric(all_candidates, ARITHMETIC_RULES[candidate.metric_name][i],
                        candidate.period_end_date) :
              i \in 1..Len(ARITHMETIC_RULES[candidate.metric_name]) } \ {<<>>}

\* C28: the revenue of the range rule and the components of the arithmetic
\* rule are candidates of the candidate's own period_end_date, also for a
\* candidate without a period.
C28_ReferencesOfSamePeriod ==
    (call.op = "validate_candidates" /\ ret # <<>> /\ ~ret[1].raised) =>
        \A i \in 1..Len(call.candidates) :
           LET candidate == call.candidates[i]
           IN /\ \A r \in {RangeReference(candidate, call.candidates)} \ {<<>>} :
                    r[1].period_end_date = candidate.period_end_date
              /\ \A r \in ArithmeticReferences(candidate, call.candidates) :
                    r[1].period_end_date = candidate.period_end_date

\* The (data row, column) pairs of a table block that are to yield a
\* candidate: the column's header cell is a period label, the row has a
\* label among the target metrics and the cell parses as a number.
ExpectedTableCells(table, target_metrics) ==
    LET header_row == table.headers[1]
        period_cols == { c \in 1..Len(header_row) :
                           /\ header_row[c] # <<>>
                           /\ parse_period_label(header_row[c]).value # <<>> }
    IN { rc \in (1..Len(table.data)) \X period_cols :
           LET row == table.data[rc[1]]
           IN /\ Strip(row[1]) # <<>>
              /\ target_metrics # <<>> =>
                    standardize_label(Strip(row[1])) \in Range(target_metrics[1])
              /\ rc[2] <= Len(row)
              /\ _parse_numeric_value(row[rc[2]]) # <<>> }

\* Every header cell after the label column is a period label and every
\* data row is a labelled row of numbers.
IsPeriodTable(table) ==
    /\ \A c \in 2..Len(table.headers[1]) :
          parse_period_label(table.headers[1][c]).value # <<>>
    /\ \A r \in 1..Len(table.data) :
          /\ Strip(table.data[r][1]) # <<>>
          /\ \A c \in 2..Len(table.data[r]) :
                _parse_numeric_value(table.data[r][c]) # <<>>

\* C29: for a table block of an adapter (one header row in headers, the
\* data rows in data) within the section's pages, the table path yields
\* one candidate per data row and period column of the header row whose
\* cell parses as a number, the first data row included; a table of period
\* headers and labelled numeric rows yields at least one candidate.
C29_TablePathUsesHeaderRow ==
    (call.op = "_generate_from_tables" /\ ret # <<>>) =>
        \A k \in 1..Len(ret[1].table_blocks) :
           LET table == ret[1].table_blocks[k]
               of_table == { i \in 1..Len(ret[1].candidates) :
                               ret[1].candidates[i].evidence.table_id = table.table_id }
           IN (/\ table.page_number >= IncomeStatementSection.start_page
               /\ table.page_number <= IncomeStatementSection.end_page
               /\ Len(table.headers) = 1) =>
                  /\ ~ret[1].raised
                  /\ Cardinality(of_table)
                        = Cardinality(ExpectedTableCells(table, call.target_metrics))
                  /\ (IsPeriodTable(table) /\ call.target_metrics = <<>>) =>
                        Cardinality(of_table) >= 1

\* The positions of the input candidates that are the first of their
\* (metric_name, period_end_date) pair, in input order.
FirstOfPair(candidates) ==
    SelectSeq([i \in 1..Len(candidates) |-> i], LAMBDA i :
        \A j \in 1..(i - 1) :
           \/ candidates[j].metric_name # candidates[i].metric_name
           \/ candidates[j].period_end_date # candidates[i].period_end_date)

====
